---- MODULE Spec2Model ----
(***************************************************************************)
(* Wylto template system (app/wylto.server.js): the template registry,     *)
(* required-field validation and the renderer (conditional blocks,         *)
(* placeholder substitution, whitespace clean-up).                         *)
(*                                                                         *)
(* A JavaScript string is modelled as a sequence of one-character strings, *)
(* so that the two regular expressions of renderTemplate act on the text   *)
(* character by character, as they do in the source.                       *)
(***************************************************************************)
EXTENDS Integers, Sequences, FiniteSets

(***************************************************************************)
(* Characters                                                              *)
(***************************************************************************)

\* \w of a JavaScript regular expression: [A-Za-z0-9_]
WordChars ==
    {"a","b","c","d","e","f","g","h","i","j","k","l","m",
     "n","o","p","q","r","s","t","u","v","w","x","y","z",
     "A","B","C","D","E","F","G","H","I","J","K","L","M",
     "N","O","P","Q","R","S","T","U","V","W","X","Y","Z",
     "0","1","2","3","4","5","6","7","8","9","_"}

\* \s of a JavaScript regular expression, and what String.prototype.trim
\* strips (the members that occur in the modelled alphabet)
WhiteSpace == {" ", "\t", "\n", "\r", "\f"}

\* the line terminators that "." does not match without the s flag
LineTerminators == {"\n", "\r"}

IsWordChar(c) == c \in WordChars

IsWhiteSpace(c) == c \in WhiteSpace

(***************************************************************************)
(* JavaScript values held by a data record                                 *)
(***************************************************************************)

JSString(s) == [type |-> "string", str |-> s, num |-> 0, bool |-> FALSE]

JSNumber(n) == [type |-> "number", str |-> <<>>, num |-> n, bool |-> FALSE]

JSBoolean(b) == [type |-> "boolean", str |-> <<>>, num |-> 0, bool |-> b]

JSNull == [type |-> "null", str |-> <<>>, num |-> 0, bool |-> FALSE]

JSUndefined == [type |-> "undefined", str |-> <<>>, num |-> 0, bool |-> FALSE]

\* ToBoolean: what `!v` and `v && ...` test
Truthy(v) ==
    CASE v.type = "string"  -> v.str /= <<>>
      [] v.type = "number"  -> v.num /= 0
      [] v.type = "boolean" -> v.bool
      [] OTHER              -> FALSE

\* v === ""
IsEmptyString(v) == v.type = "string" /\ v.str = <<>>

\* v != null  (loose comparison: false exactly for null and undefined)
NotNullish(v) == v.type \notin {"null", "undefined"}

Digit(n) == <<"0","1","2","3","4","5","6","7","8","9">>[n + 1]

RECURSIVE NatToString(_)
NatToString(n) ==
    IF n < 10 THEN <<Digit(n)>>
    ELSE NatToString(n \div 10) \o <<Digit(n % 10)>>

\* String(v)
StringOf(v) ==
    CASE v.type = "string"    -> v.str
      [] v.type = "number"    -> IF v.num < 0 THEN <<"-">> \o NatToString(-v.num)
                                 ELSE NatToString(v.num)
      [] v.type = "boolean"   -> IF v.bool THEN <<"t","r","u","e">>
                                 ELSE <<"f","a","l","s","e">>
      [] v.type = "null"      -> <<"n","u","l","l">>
      [] OTHER                -> <<"u","n","d","e","f","i","n","e","d">>

(***************************************************************************)
(* Data records: an object literal, as the sequence of its own properties  *)
(* in the order Object.entries enumerates them (insertion order for        *)
(* property names that are not array indices).                             *)
(***************************************************************************)

Entry(k, v) == [key |-> k, value |-> v]

HasKey(data, k) == \E i \in 1..Len(data) : data[i].key = k

\* data[field]: the property's value, undefined when there is none
Get(data, field) ==
    IF HasKey(data, field)
    THEN data[CHOOSE i \in 1..Len(data) : data[i].key = field].value
    ELSE JSUndefined

(***************************************************************************)
(* Template registry                                                       *)
(***************************************************************************)

customerName == <<"c","u","s","t","o","m","e","r","N","a","m","e">>

orderNumber == <<"o","r","d","e","r","N","u","m","b","e","r">>

shopName == <<"s","h","o","p","N","a","m","e">>

total == <<"t","o","t","a","l">>

currency == <<"c","u","r","r","e","n","c","y">>

orderUrl == <<"o","r","d","e","r","U","r","l">>

trackingNumber == <<"t","r","a","c","k","i","n","g","N","u","m","b","e","r">>

carrier == <<"c","a","r","r","i","e","r">>

refundAmount == <<"r","e","f","u","n","d","A","m","o","u","n","t">>

orderStatus == <<"o","r","d","e","r","S","t","a","t","u","s">>

cartUrl == <<"c","a","r","t","U","r","l">>

itemCount == <<"i","t","e","m","C","o","u","n","t">>

cartTotal == <<"c","a","r","t","T","o","t","a","l">>

\* the text {{name}}
Ph(name) == <<"{","{">> \o name \o <<"}","}">>

\* the text {{#name}}
Open(name) == <<"{","{","#">> \o name \o <<"}","}">>

\* the text {{/name}}
Close(name) == <<"{","{","/">> \o name \o <<"}","}">>

ORDER_CREATED_TEMPLATE ==
    [messageType |-> "ORDER_CREATED",
     description |-> "Sent when a new order is created",
     textTemplate |->
           <<"H","i"," ">>
        \o Ph(customerName)
        \o <<","," ","t","h","a","n","k","s"," ","f","o","r"," ","y">>
        \o <<"o","u","r"," ","o","r","d","e","r"," ","#">>
        \o Ph(orderNumber)
        \o <<" ","f","r","o","m"," ">>
        \o Ph(shopName)
        \o <<"."," ","Y","o","u","r"," ","t","o","t","a","l"," ","i">>
        \o <<"s"," ">>
        \o Ph(total)
        \o Ph(currency)
        \o <<"."," ","O","r","d","e","r"," ","d","e","t","a","i","l">>
        \o <<"s",":"," ">>
        \o Ph(orderUrl),
     requiredFields |-> <<customerName, orderNumber, shopName, total>>,
     optionalFields |-> <<currency, orderUrl>>]

ORDER_FULFILLED_TEMPLATE ==
    [messageType |-> "ORDER_FULFILLED",
     description |-> "Sent when an order is fulfilled/shipped",
     textTemplate |->
           <<"H","i"," ">>
        \o Ph(customerName)
        \o <<","," ","y","o","u","r"," ","o","r","d","e","r"," ","#">>
        \o Ph(orderNumber)
        \o <<" ","h","a","s"," ","b","e","e","n"," ","s","h","i","p">>
        \o <<"p","e","d","!">>
        \o Open(trackingNumber)
        \o <<" ","T","r","a","c","k","i","n","g"," ","n","u","m","b">>
        \o <<"e","r",":"," ">>
        \o Ph(trackingNumber)
        \o Close(trackingNumber)
        \o Open(carrier)
        \o <<" ","C","a","r","r","i","e","r",":"," ">>
        \o Ph(carrier)
        \o Close(carrier),
     requiredFields |-> <<customerName, orderNumber>>,
     optionalFields |-> <<trackingNumber, carrier>>]

ORDER_CANCELLED_TEMPLATE ==
    [messageType |-> "ORDER_CANCELLED",
     description |-> "Sent when an order is cancelled",
     textTemplate |->
           <<"H","i"," ">>
        \o Ph(customerName)
        \o <<","," ","y","o","u","r"," ","o","r","d","e","r"," ","#">>
        \o Ph(orderNumber)
        \o <<" ","f","r","o","m"," ">>
        \o Ph(shopName)
        \o <<" ","h","a","s"," ","b","e","e","n"," ","c","a","n","c">>
        \o <<"e","l","l","e","d",".">>
        \o Open(refundAmount)
        \o <<" ","R","e","f","u","n","d"," ","a","m","o","u","n","t">>
        \o <<":"," ">>
        \o Ph(refundAmount)
        \o Ph(currency)
        \o Close(refundAmount),
     requiredFields |-> <<customerName, orderNumber, shopName>>,
     optionalFields |-> <<refundAmount, currency>>]

ORDER_UPDATED_TEMPLATE ==
    [messageType |-> "ORDER_UPDATED",
     description |-> "Sent when an order status is updated",
     textTemplate |->
           <<"H","i"," ">>
        \o Ph(customerName)
        \o <<","," ","y","o","u","r"," ","o","r","d","e","r"," ","#">>
        \o Ph(orderNumber)
        \o <<" ","s","t","a","t","u","s"," ","h","a","s"," ","b","e">>
        \o <<"e","n"," ","u","p","d","a","t","e","d"," ","t","o",":">>
        \o <<" ">>
        \o Ph(orderStatus)
        \o <<".">>,
     requiredFields |-> <<customerName, orderNumber, orderStatus>>,
     optionalFields |-> <<>>]

CART_RECOVERY_TEMPLATE ==
    [messageType |-> "CART_RECOVERY",
     description |-> "Sent for abandoned cart recovery",
     textTemplate |->
           <<"H","i"," ">>
        \o Ph(customerName)
        \o <<","," ","y","o","u"," ","l","e","f","t"," ","i","t","e">>
        \o <<"m","s"," ","i","n"," ","y","o","u","r"," ","c","a","r">>
        \o <<"t"," ","a","t"," ">>
        \o Ph(shopName)
        \o <<"!"," ","C","o","m","p","l","e","t","e"," ","y","o","u">>
        \o <<"r"," ","p","u","r","c","h","a","s","e",":"," ">>
        \o Ph(cartUrl)
        \o Open(itemCount)
        \o <<" ","(">>
        \o Ph(itemCount)
        \o <<" ","i","t","e","m","s",")">>
        \o Close(itemCount)
        \o Open(cartTotal)
        \o <<" ","T","o","t","a","l",":"," ">>
        \o Ph(cartTotal)
        \o Close(cartTotal),
     requiredFields |-> <<customerName, shopName, cartUrl>>,
     optionalFields |-> <<itemCount, cartTotal>>]

TEMPLATES ==
    [k \in {"ORDER_CREATED", "ORDER_FULFILLED", "ORDER_CANCELLED",
            "ORDER_UPDATED", "CART_RECOVERY"} |->
        CASE k = "ORDER_CREATED"   -> ORDER_CREATED_TEMPLATE
          [] k = "ORDER_FULFILLED" -> ORDER_FULFILLED_TEMPLATE
          [] k = "ORDER_CANCELLED" -> ORDER_CANCELLED_TEMPLATE
          [] k = "ORDER_UPDATED"   -> ORDER_UPDATED_TEMPLATE
          [] OTHER                 -> CART_RECOVERY_TEMPLATE]

\* Property names every object literal inherits from Object.prototype:
\* TEMPLATES[name] evaluates to a function (or, for __proto__, to
\* Object.prototype itself) for these names, and to undefined for any other
\* name that is not a key of the literal.
ObjectPrototypeKeys ==
    {"constructor", "toString", "toLocaleString", "valueOf", "hasOwnProperty",
     "isPrototypeOf", "propertyIsEnumerable", "__proto__"}

\* TEMPLATES[templateKey], classified:
\*   "template"  an entry of the registry
\*   "inherited" a truthy value without requiredFields/textTemplate fields
\*   "undefined" no such property
TemplateLookup(templateKey) ==
    IF templateKey \in DOMAIN TEMPLATES THEN "template"
    ELSE IF templateKey \in ObjectPrototypeKeys THEN "inherited"
    ELSE "undefined"

(***************************************************************************)
(* Results of a call: a returned value or a thrown error                   *)
(***************************************************************************)

NoResult ==
    [kind |-> "none", threw |-> "", message |-> "", valid |-> FALSE,
     missingFields |-> <<>>, text |-> <<>>, info |-> <<>>, list |-> <<>>]

\* throw new Error(message...) / a TypeError or SyntaxError raised by the
\* runtime; fields is the list joined into the message, if any
Throw(name, message, fields) ==
    [NoResult EXCEPT !.kind = "throw", !.threw = name, !.message = message,
                     !.missingFields = fields]

ReturnText(t) == [NoResult EXCEPT !.kind = "return", !.text = t]

(***************************************************************************)
(* Template validation                                                     *)
(***************************************************************************)

\* the filter predicate  (field) => !data[field] || data[field] === ""
IsMissing(data, field) ==
    \/ ~Truthy(Get(data, field))
    \/ IsEmptyString(Get(data, field))

validateTemplateData(templateKey, data) ==
    CASE TemplateLookup(templateKey) = "undefined" ->
           [NoResult EXCEPT !.kind = "return", !.valid = FALSE,
                            !.missingFields = <<>>,
                            !.message = "Template not found"]
      [] TemplateLookup(templateKey) = "inherited" ->
           \* template.requiredFields is undefined: .filter throws
           Throw("TypeError", "Cannot read properties of undefined", <<>>)
      [] OTHER ->
           LET template == TEMPLATES[templateKey]
               missingFields ==
                   SelectSeq(template.requiredFields,
                             LAMBDA field : IsMissing(data, field))
           IN  [NoResult EXCEPT !.kind = "return",
                                !.valid = (Len(missingFields) = 0),
                                !.missingFields = missingFields]

(***************************************************************************)
(* Step 4 of renderTemplate: conditional blocks                            *)
(*   /\{\{#(\w+)\}\}(.*?)\{\{\/\1\}\}/gs                                   *)
(***************************************************************************)

\* the text lit occurs in s starting at index i
MatchLit(s, i, lit) ==
    /\ i >= 1
    /\ i + Len(lit) - 1 <= Len(s)
    /\ \A j \in 1..Len(lit) : s[i + j - 1] = lit[j]

\* length of the longest run of \w characters of s starting at index i
RECURSIVE WordRunLen(_, _)
WordRunLen(s, i) ==
    IF i <= Len(s) /\ IsWordChar(s[i]) THEN 1 + WordRunLen(s, i + 1) ELSE 0

\* least index >= from at which lit occurs in s, 0 when there is none
FirstIndexFrom(s, lit, from) ==
    LET hits == {x \in from..Len(s) : MatchLit(s, x, lit)}
    IN  IF hits = {} THEN 0
        ELSE CHOOSE x \in hits : \A y \in hits : x <= y


NoBlockMatch == [ok |-> FALSE, fieldName |-> <<>>, blockContent |-> <<>>, last |-> 0]

\* conditionalBlockRegex written without the backreference,
\*   /\{\{#(\w+)\}\}(.*?)\{\{\/\w+\}\}/gs :
\* the block ends at the first closing marker of any name
conditionalBlockRegex_AnyCloser(s, i) ==
    IF ~MatchLit(s, i, <<"{","{","#">>) THEN NoBlockMatch
    ELSE
      LET n       == WordRunLen(s, i + 3)
          name    == SubSeq(s, i + 3, i + 2 + n)
          content == i + 3 + n + 2
          closers == {x \in content..Len(s) :
                        /\ MatchLit(s, x, <<"{","{","/">>)
                        /\ WordRunLen(s, x + 3) > 0
                        /\ MatchLit(s, x + 3 + WordRunLen(s, x + 3), <<"}","}">>)}
          closeAt == IF closers = {} THEN 0
                     ELSE CHOOSE x \in closers : \A y \in closers : x <= y
      IN  IF n = 0 \/ ~MatchLit(s, i + 3 + n, <<"}","}">>) \/ closeAt = 0
          THEN NoBlockMatch
          ELSE [ok |-> TRUE, fieldName |-> name,
                blockContent |-> SubSeq(s, content, closeAt - 1),
                last |-> closeAt + 3 + WordRunLen(s, closeAt + 3) + 1]

\* One attempt of conditionalBlockRegex at index i of s.  \w+ is greedy and
\* must be followed by }}; since } is not a word character only the longest
\* run can succeed.  (.*?) is lazy and, with the s flag, crosses newlines:
\* the match ends at the first {{/name}} that repeats the captured name.
conditionalBlockRegex(s, i) ==
    IF ~MatchLit(s, i, <<"{","{","#">>) THEN NoBlockMatch
    ELSE
      LET n       == WordRunLen(s, i + 3)
          name    == SubSeq(s, i + 3, i + 2 + n)
          content == i + 3 + n + 2
          closeAt == FirstIndexFrom(s, Close(name), content)
      IN  IF n = 0 \/ ~MatchLit(s, i + 3 + n, <<"}","}">>) \/ closeAt = 0
          THEN NoBlockMatch
          ELSE [ok |-> TRUE, fieldName |-> name,
                blockContent |-> SubSeq(s, content, closeAt - 1),
                last |-> closeAt + Len(Close(name)) - 1]

\* the replacer callback (match, fieldName, blockContent) => ...
BlockReplacer(data, fieldName, blockContent) ==
    IF Truthy(Get(data, fieldName)) /\ ~IsEmptyString(Get(data, fieldName))
    THEN blockContent
    ELSE <<>>

\* least member of a non-empty set of indices
Least(S) == CHOOSE x \in S : \A y \in S : x <= y

\* rendered.replace(conditionalBlockRegex, replacer), scanning from index i:
\* matches are found left to right, do not overlap, and the text a
\* replacement puts in is not scanned again
RECURSIVE ReplaceBlocksFrom(_, _, _)
ReplaceBlocksFrom(s, data, i) ==
    LET starts == {x \in i..Len(s) : conditionalBlockRegex(s, x).ok}
    IN  IF starts = {} THEN SubSeq(s, i, Len(s))
        ELSE LET m == conditionalBlockRegex(s, Least(starts))
             IN  SubSeq(s, i, Least(starts) - 1)
                   \o BlockReplacer(data, m.fieldName, m.blockContent)
                   \o ReplaceBlocksFrom(s, data, m.last + 1)

ProcessConditionalBlocks(s, data) == ReplaceBlocksFrom(s, data, 1)

(***************************************************************************)
(* Step 5 of renderTemplate: placeholders                                  *)
(*   new RegExp(`\\{\\{${key}\\}\\}`, "g") and rendered.replace            *)
(***************************************************************************)

\* The property name is pasted into the pattern source unescaped.  The model
\* covers names made of word characters, "." and "(":
\*   a word character matches itself,
\*   "." matches any character but a line terminator,
\*   "(" opens a group that nothing closes: new RegExp throws SyntaxError.
KeyChars == WordChars \cup {".", "("}

IsKey(k) == \A i \in 1..Len(k) : k[i] \in KeyChars

PatternCompiles(key) == \A i \in 1..Len(key) : key[i] /= "("

PatternCharMatches(p, c) ==
    IF p = "." THEN c \notin LineTerminators ELSE p = c

\* the pattern \{\{key\}\} matches s at index i
placeholder(s, i, key) ==
    /\ i + Len(key) + 3 <= Len(s)
    /\ s[i] = "{" /\ s[i + 1] = "{"
    /\ \A j \in 1..Len(key) : PatternCharMatches(key[j], s[i + 1 + j])
    /\ s[i + Len(key) + 2] = "}" /\ s[i + Len(key) + 3] = "}"

\* The replacement is passed as a string, so String.prototype.replace
\* expands its $ patterns for a match s[first..last]:
\*   $$ -> $,  $& -> the match,  $` -> the text before,  $' -> the text after
\* ($n and $<name> stay literal: the pattern has no groups)
RECURSIVE ExpandReplacement(_, _, _, _, _)
ExpandReplacement(repl, j, s, first, last) ==
    IF j > Len(repl) THEN <<>>
    ELSE IF repl[j] = "$" /\ j < Len(repl) /\ repl[j + 1] = "$"
         THEN <<"$">> \o ExpandReplacement(repl, j + 2, s, first, last)
    ELSE IF repl[j] = "$" /\ j < Len(repl) /\ repl[j + 1] = "&"
         THEN SubSeq(s, first, last) \o ExpandReplacement(repl, j + 2, s, first, last)
    ELSE IF repl[j] = "$" /\ j < Len(repl) /\ repl[j + 1] = "`"
         THEN SubSeq(s, 1, first - 1) \o ExpandReplacement(repl, j + 2, s, first, last)
    ELSE IF repl[j] = "$" /\ j < Len(repl) /\ repl[j + 1] = "'"
         THEN SubSeq(s, last + 1, Len(s)) \o ExpandReplacement(repl, j + 2, s, first, last)
    ELSE <<repl[j]>> \o ExpandReplacement(repl, j + 1, s, first, last)

\* s.replace(placeholder, replacement) with the g flag, scanning from index i
RECURSIVE ReplacePlaceholderFrom(_, _, _, _)
ReplacePlaceholderFrom(s, key, repl, i) ==
    LET starts == {x \in i..Len(s) : placeholder(s, x, key)}
    IN  IF starts = {} THEN SubSeq(s, i, Len(s))
        ELSE LET first == Least(starts)
                 last  == first + Len(key) + 3
             IN  SubSeq(s, i, first - 1)
                   \o ExpandReplacement(repl, 1, s, first, last)
                   \o ReplacePlaceholderFrom(s, key, repl, last + 1)

\* const replacement = value != null ? String(value) : ""
replacement(value) == IF NotNullish(value) THEN StringOf(value) ELSE <<>>

\* for (const [key, value] of Object.entries(data)) {...}, from entry n on
RECURSIVE ReplacePlaceholders(_, _, _)
ReplacePlaceholders(rendered, data, n) ==
    IF n > Len(data) THEN ReturnText(rendered)
    ELSE IF ~PatternCompiles(data[n].key)
         THEN Throw("SyntaxError", "Invalid regular expression", <<>>)
    ELSE ReplacePlaceholders(
             ReplacePlaceholderFrom(rendered, data[n].key,
                                    replacement(data[n].value), 1),
             data, n + 1)

(***************************************************************************)
(* Step 6 of renderTemplate: whitespace clean-up                           *)
(***************************************************************************)

\* s.split("\n"): the lines of s from index from on
RECURSIVE SplitFrom(_, _)
SplitFrom(s, from) ==
    LET breaks == {x \in from..Len(s) : s[x] = "\n"}
    IN  IF breaks = {} THEN <<SubSeq(s, from, Len(s))>>
        ELSE <<SubSeq(s, from, Least(breaks) - 1)>>
               \o SplitFrom(s, Least(breaks) + 1)

split(s) == SplitFrom(s, 1)

\* s.trim()
trim(s) ==
    LET keep == {i \in 1..Len(s) : ~IsWhiteSpace(s[i])}
    IN  IF keep = {} THEN <<>>
        ELSE SubSeq(s, CHOOSE i \in keep : \A j \in keep : i <= j,
                       CHOOSE i \in keep : \A j \in keep : i >= j)

\* lines.join(" ")
RECURSIVE join(_)
join(lines) ==
    IF Len(lines) = 0 THEN <<>>
    ELSE IF Len(lines) = 1 THEN lines[1]
    ELSE lines[1] \o <<" ">> \o join(Tail(lines))

\* s.replace(/\s\s/g, " "), the pattern written for two characters instead of
\* a run: every pair of whitespace characters, left to right, becomes a space
Collapse_Pairs(s) ==
    LET pairStart(i) ==
            /\ i < Len(s) /\ IsWhiteSpace(s[i]) /\ IsWhiteSpace(s[i + 1])
            /\ Cardinality({j \in 1..(i - 1) :
                               \A k \in j..(i - 1) : IsWhiteSpace(s[k])}) % 2 = 0
        marked == [i \in 1..Len(s) |->
                     IF pairStart(i) THEN " "
                     ELSE IF i > 1 /\ pairStart(i - 1) THEN ""
                     ELSE s[i]]
    IN  SelectSeq(marked, LAMBDA c : c /= "")

\* s.replace(/\s+/g, " "): the first character of every run of whitespace
\* becomes a space and the rest of the run goes ("" marks a dropped place)
Collapse(s) ==
    LET marked == [i \in 1..Len(s) |->
                     IF ~IsWhiteSpace(s[i]) THEN s[i]
                     ELSE IF i > 1 /\ IsWhiteSpace(s[i - 1]) THEN ""
                     ELSE " "]
    IN  SelectSeq(marked, LAMBDA c : c /= "")

CleanWhitespace(s) ==
    LET lines    == split(s)
        trimmed  == [i \in 1..Len(lines) |-> trim(lines[i])]
        nonEmpty == SelectSeq(trimmed, LAMBDA line : Len(line) > 0)
    IN  trim(Collapse(join(nonEmpty)))

(***************************************************************************)
(* renderTemplate                                                          *)
(***************************************************************************)

\* the clean-up of step 6 moved before the substitution of step 5
renderTemplate_CleanBeforeSubstitution(templateKey, data) ==
    IF TemplateLookup(templateKey) = "undefined"
    THEN Throw("Error", "Template not found", <<>>)
    ELSE
      LET validation == validateTemplateData(templateKey, data)
      IN  IF validation.kind = "throw" THEN validation
          ELSE IF ~validation.valid
          THEN Throw("Error", "Missing required fields for template",
                     validation.missingFields)
          ELSE
            LET template == TEMPLATES[templateKey]
                blocks   == ProcessConditionalBlocks(template.textTemplate, data)
            IN  ReplacePlaceholders(CleanWhitespace(blocks), data, 1)

renderTemplate(templateKey, data) ==
    IF TemplateLookup(templateKey) = "undefined"
    THEN Throw("Error", "Template not found", <<>>)
    ELSE
      LET validation == validateTemplateData(templateKey, data)
      IN  IF validation.kind = "throw" THEN validation
          ELSE IF ~validation.valid
          THEN Throw("Error", "Missing required fields for template",
                     validation.missingFields)
          ELSE
            LET template == TEMPLATES[templateKey]
                blocks   == ProcessConditionalBlocks(template.textTemplate, data)
                replaced == ReplacePlaceholders(blocks, data, 1)
            IN  IF replaced.kind = "throw" THEN replaced
                ELSE ReturnText(CleanWhitespace(replaced.text))

(***************************************************************************)
(* Template info helpers                                                   *)
(***************************************************************************)

\* null, or the metadata object; for an inherited property name the object
\* is returned with every field undefined
getTemplateInfo(templateKey) ==
    CASE TemplateLookup(templateKey) = "undefined" ->
           [NoResult EXCEPT !.kind = "return", !.info = <<>>]
      [] TemplateLookup(templateKey) = "inherited" ->
           [NoResult EXCEPT !.kind = "return",
                            !.info = <<[messageType |-> "undefined",
                                        requiredFields |-> <<>>,
                                        optionalFields |-> <<>>]>>]
      [] OTHER ->
           [NoResult EXCEPT !.kind = "return",
                            !.info = <<[messageType |-> TEMPLATES[templateKey].messageType,
                                        requiredFields |-> TEMPLATES[templateKey].requiredFields,
                                        optionalFields |-> TEMPLATES[templateKey].optionalFields]>>]

\* Object.keys(TEMPLATES), in the order of the literal
getAllTemplateKeys ==
    <<"ORDER_CREATED", "ORDER_FULFILLED", "ORDER_CANCELLED",
      "ORDER_UPDATED", "CART_RECOVERY">>

\* Object.keys(TEMPLATES).map((key) => ({key, info: getTemplateInfo(key)}))
getAllTemplates ==
    [i \in 1..Len(getAllTemplateKeys) |->
        [key  |-> getAllTemplateKeys[i],
         info |-> getTemplateInfo(getAllTemplateKeys[i]).info]]

(***************************************************************************)
(* Callers: the template keys and data records the engine is called with   *)
(***************************************************************************)

\* largest number a data record holds as a value (numbers are 0..MaxNum)
MaxNum == 1

\* the registered keys, a key that names nothing, and a key that names a
\* property inherited from Object.prototype
TemplateKeys == DOMAIN TEMPLATES \cup {"NOT_A_TEMPLATE", "constructor"}

\* an ordinary value for each field, as the webhook handlers and the test
\* page pass them
SampleValue(field) ==
    CASE field = customerName   -> JSString(<<"J","o","h","n">>)
      [] field = orderNumber    -> JSString(<<"1","2","3","4">>)
      [] field = shopName       -> JSString(<<"S","h","o","p">>)
      [] field = total          -> JSString(<<"9",".","5","0">>)
      [] field = currency       -> JSString(<<"U","S","D">>)
      [] field = orderUrl       -> JSString(<<"u",".","r","l","/","7">>)
      [] field = trackingNumber -> JSString(<<"T","R","K","1">>)
      [] field = carrier        -> JSString(<<"F","e","d","E","x">>)
      [] field = refundAmount   -> JSString(<<"5",".","2","5">>)
      [] field = orderStatus    -> JSString(<<"p","a","i","d">>)
      [] field = cartUrl        -> JSString(<<"u",".","r","l","/","c">>)
      [] field = itemCount      -> JSString(<<"3">>)
      [] field = cartTotal      -> JSString(<<"4","2">>)
      [] OTHER                  -> JSString(<<"X">>)

\* values a caller may also pass: nothing, the empty string, numbers, false,
\* text holding a $ pattern, text holding a placeholder, and text holding
\* spaces, a tab and a line break
OddValues ==
    {JSUndefined, JSNull, JSString(<<>>), JSBoolean(FALSE),
     JSString(<<"$","$">>), JSString(Ph(customerName)),
     JSString(<<" ","\n"," ","x","\t"," ">>)}
      \cup {JSNumber(n) : n \in 0..MaxNum}

\* property names that are not template fields
OddKeys == {<<"c",".","r","r","e","n","c","y">>, <<"(">>}

SeqToSet(q) == {q[i] : i \in 1..Len(q)}

RequiredFields(k) == SeqToSet(TEMPLATES[k].requiredFields)

OptionalFields(k) == SeqToSet(TEMPLATES[k].optionalFields)

\* data[field] = value: a new property goes last, an existing one keeps
\* its place
Put(data, field, value) ==
    IF HasKey(data, field)
    THEN [i \in 1..Len(data) |->
             IF data[i].key = field THEN Entry(field, value) ELSE data[i]]
    ELSE Append(data, Entry(field, value))

\* delete data[field]
Delete(data, field) == SelectSeq(data, LAMBDA e : e.key /= field)

Reverse(q) == [i \in 1..Len(q) |-> q[Len(q) + 1 - i]]

SampleRecord(fields) == [i \in 1..Len(fields) |-> Entry(fields[i], SampleValue(fields[i]))]

\* the records built for template k: the sample record with or without the
\* optional fields, its properties written in either order, and every
\* record one assignment or one delete away from those
BaseRecords(k) ==
    LET req == SampleRecord(TEMPLATES[k].requiredFields)
        all == SampleRecord(TEMPLATES[k].requiredFields \o TEMPLATES[k].optionalFields)
    IN  {req, all, Reverse(req), Reverse(all)}

Edits(k, d) ==
    {Put(d, f, v) : f \in RequiredFields(k) \cup OptionalFields(k), v \in OddValues}
      \cup {Put(d, f, SampleValue(f)) : f \in OptionalFields(k) \cup OddKeys}
      \cup {Delete(d, f) : f \in RequiredFields(k) \cup OptionalFields(k)}

DataRecords(k) ==
    IF k \in DOMAIN TEMPLATES
    THEN BaseRecords(k) \cup UNION {Edits(k, d) : d \in BaseRecords(k)}
    ELSE {<<>>} \cup BaseRecords("ORDER_CREATED")

(***************************************************************************)
(* State machine: a caller holds a template key and a data record and      *)
(* calls the engine; op and result record the last call and what it gave.  *)
(***************************************************************************)

VARIABLES templateKey, data, op, result

\* registry is the content of the module-level object TEMPLATES over time:
\* the functions above read it, and no statement of the module assigns to it
\* or to a property of it.  inputText is the string a text step is applied to.
VARIABLES registry, inputText

\* callers: the renderTemplate calls in progress, one per caller
VARIABLES callers

\* hook: the webhook request a handler answered last and its response;
\* forwards: the requests sent to the Wylto backend
VARIABLES hook, forwards

\* The database tables Store, MessageLog and WebhookLog, the requests sent to
\* the Wylto API, and the sendWhatsAppMessage call made last with its outcome
VARIABLES stores, messageLog, webhookLog, wyltoRequests, sendCall

engineVars == <<templateKey, data, op, result, registry, inputText>>

concurrentVars == <<callers>>

forwardVars == <<hook, forwards>>

sendVars == <<stores, messageLog, webhookLog, wyltoRequests, sendCall>>

vars == <<engineVars, concurrentVars, forwardVars, sendVars>>

\* nothing but the template engine is in use
OnlyEngine ==
    /\ callers = <<>>
    /\ hook = <<>> /\ forwards = <<>>
    /\ stores = <<>> /\ messageLog = <<>> /\ webhookLog = <<>>
    /\ wyltoRequests = <<>> /\ sendCall = <<>>

Init ==
    /\ templateKey \in TemplateKeys
    /\ data \in DataRecords(templateKey)
    /\ op = "none"
    /\ result = NoResult
    /\ registry = TEMPLATES
    /\ inputText = <<>>
    /\ OnlyEngine

\* data[key] = value != null ? String(value) : "" written in the loop of
\* renderTemplate: the caller's record is normalised in place
CallRenderTemplate_WritesBack ==
    /\ op' = "renderTemplate"
    /\ result' = renderTemplate(templateKey, data)
    /\ data' = [n \in 1..Len(data) |->
                  Entry(data[n].key, JSString(replacement(data[n].value)))]
    /\ UNCHANGED <<templateKey, registry, inputText>>
    /\ UNCHANGED <<concurrentVars, forwardVars, sendVars>>

CallRenderTemplate ==
    /\ op' = "renderTemplate"
    /\ result' = renderTemplate(templateKey, data)
    /\ UNCHANGED <<templateKey, data, registry, inputText>>
    /\ UNCHANGED <<concurrentVars, forwardVars, sendVars>>

CallValidateTemplateData ==
    /\ op' = "validateTemplateData"
    /\ result' = validateTemplateData(templateKey, data)
    /\ UNCHANGED <<templateKey, data, registry, inputText>>
    /\ UNCHANGED <<concurrentVars, forwardVars, sendVars>>

CallGetTemplateInfo ==
    /\ op' = "getTemplateInfo"
    /\ result' = getTemplateInfo(templateKey)
    /\ UNCHANGED <<templateKey, data, registry, inputText>>
    /\ UNCHANGED <<concurrentVars, forwardVars, sendVars>>

CallGetAllTemplateKeys ==
    /\ op' = "getAllTemplateKeys"
    /\ result' = [NoResult EXCEPT !.kind = "return", !.list = getAllTemplateKeys]
    /\ UNCHANGED <<templateKey, data, registry, inputText>>
    /\ UNCHANGED <<concurrentVars, forwardVars, sendVars>>

CallGetAllTemplates ==
    /\ op' = "getAllTemplates"
    /\ result' = [NoResult EXCEPT !.kind = "return", !.list = getAllTemplates]
    /\ UNCHANGED <<templateKey, data, registry, inputText>>
    /\ UNCHANGED <<concurrentVars, forwardVars, sendVars>>

Next ==
    \/ CallRenderTemplate
    \/ CallValidateTemplateData
    \/ CallGetTemplateInfo
    \/ CallGetAllTemplateKeys
    \/ CallGetAllTemplates

Spec == Init /\ [][Next]_vars

\* the shape of the state: the data record has distinct property names made
\* of the characters the pattern model covers, and result belongs to op
TypeOK ==
    /\ templateKey \in TemplateKeys
    /\ \A i \in 1..Len(data) : IsKey(data[i].key)
    /\ \A i, j \in 1..Len(data) : data[i].key = data[j].key => i = j
    /\ op \in {"none", "renderTemplate", "validateTemplateData", "getTemplateInfo",
               "getAllTemplateKeys", "getAllTemplates"}
    /\ (op = "none") <=> (result.kind = "none")

(***************************************************************************)
(* The text steps of renderTemplate on their own: the conditional-block    *)
(* step and the whitespace clean-up applied to any text, as renderTemplate *)
(* applies them to the text of a template (lines 130-140 and 149-156).     *)
(***************************************************************************)

\* longest text of markers and letters, in tokens
MaxTokens == 4

\* longest text of letters and whitespace, in characters
MaxChars == 5

\* the field names the marker texts use
BlockNames == {<<"a">>, <<"b">>}

\* the pieces a marker text is made of
BlockTokens ==
    {Open(n) : n \in BlockNames} \cup {Close(n) : n \in BlockNames} \cup {<<"x">>}

RECURSIVE Flatten(_)
Flatten(pieces) ==
    IF Len(pieces) = 0 THEN <<>> ELSE pieces[1] \o Flatten(Tail(pieces))

SeqsUpTo(S, n) == UNION {[1..m -> S] : m \in 0..n}

BlockTexts == {Flatten(q) : q \in SeqsUpTo(BlockTokens, MaxTokens)}

SpaceTexts == SeqsUpTo({"a", " ", "\n", "\t"}, MaxChars)

\* data records for the marker texts: each name absent, a string, or 0
BlockData ==
    {<<>>,
     <<Entry(<<"a">>, JSString(<<"v">>))>>,
     <<Entry(<<"b">>, JSString(<<"v">>))>>,
     <<Entry(<<"a">>, JSString(<<"v">>)), Entry(<<"b">>, JSString(<<"v">>))>>,
     <<Entry(<<"a">>, JSNumber(0)), Entry(<<"b">>, JSString(<<"v">>))>>}

InitText ==
    /\ \/ inputText \in BlockTexts /\ data \in BlockData
       \/ inputText \in SpaceTexts /\ data = <<>>
    /\ templateKey = ""
    /\ op = "none"
    /\ result = NoResult
    /\ registry = TEMPLATES
    /\ OnlyEngine

\* step 4: rendered = rendered.replace(conditionalBlockRegex, ...)
ApplyConditionalBlocks ==
    /\ op = "none"
    /\ op' = "conditionalBlocks"
    /\ result' = ReturnText(ProcessConditionalBlocks(inputText, data))
    /\ UNCHANGED <<templateKey, data, registry, inputText>>
    /\ UNCHANGED <<concurrentVars, forwardVars, sendVars>>

\* step 6: the whitespace clean-up
ApplyCleanWhitespace ==
    /\ op = "none"
    /\ op' = "cleanWhitespace"
    /\ result' = ReturnText(CleanWhitespace(inputText))
    /\ UNCHANGED <<templateKey, data, registry, inputText>>
    /\ UNCHANGED <<concurrentVars, forwardVars, sendVars>>

\* the clean-up applied to the text the clean-up returned
ApplyCleanWhitespaceAgain ==
    /\ op = "cleanWhitespace"
    /\ op' = "cleanWhitespaceAgain"
    /\ inputText' = result.text
    /\ result' = ReturnText(CleanWhitespace(result.text))
    /\ UNCHANGED <<templateKey, data, registry>>
    /\ UNCHANGED <<concurrentVars, forwardVars, sendVars>>

NextText ==
    \/ ApplyConditionalBlocks
    \/ ApplyCleanWhitespace
    \/ ApplyCleanWhitespaceAgain

SpecText == InitText /\ [][NextText]_vars

(***************************************************************************)
(* renderTemplate called by several callers at once.  A call is taken      *)
(* apart at its statements: the look-up, the validation, the block step,   *)
(* each turn of the placeholder loop, the clean-up.  Its locals (template, *)
(* validation, rendered, the loop position) belong to the call; TEMPLATES  *)
(* is the one thing the calls share.                                       *)
(***************************************************************************)

\* number of callers
MaxCallers == 2

\* what the callers pass: a record that keeps one block of its template and
\* drops the other, a record for a template without blocks, a record that
\* lacks a required field, an unknown key
CallerInputs ==
    {<<"ORDER_FULFILLED", SampleRecord(<<customerName, orderNumber, trackingNumber>>)>>,
     <<"ORDER_UPDATED", SampleRecord(TEMPLATES["ORDER_UPDATED"].requiredFields)>>,
     <<"ORDER_CANCELLED", SampleRecord(<<customerName, orderNumber>>)>>,
     <<"NOT_A_TEMPLATE", <<>>>>}

\* a call about to run; overlapped records that a statement of the call ran
\* while another call was between its first and its last statement
NewCall(k, d) ==
    [templateKey |-> k, data |-> d, pc |-> "lookup", rendered |-> <<>>,
     n |-> 0, result |-> NoResult, overlapped |-> FALSE]

InitConcurrent ==
    /\ callers \in [1..MaxCallers -> {NewCall(in[1], in[2]) : in \in CallerInputs}]
    /\ templateKey = "" /\ data = <<>> /\ op = "none" /\ result = NoResult
    /\ registry = TEMPLATES /\ inputText = <<>>
    /\ hook = <<>> /\ forwards = <<>>
    /\ stores = <<>> /\ messageLog = <<>> /\ webhookLog = <<>>
    /\ wyltoRequests = <<>> /\ sendCall = <<>>

\* caller c runs one statement and its call becomes new
RunStatement(c, new) ==
    /\ callers' =
         [callers EXCEPT ![c] =
             [new EXCEPT !.overlapped =
                 @ \/ \E o \in DOMAIN callers \ {c} :
                          callers[o].pc \notin {"lookup", "done"}]]
    /\ UNCHANGED <<engineVars, forwardVars, sendVars>>

\* const template = TEMPLATES[templateKey]; if (!template) throw ...
RenderLookup(c) ==
    /\ callers[c].pc = "lookup"
    /\ RunStatement(c,
         IF TemplateLookup(callers[c].templateKey) = "undefined"
         THEN [callers[c] EXCEPT !.pc = "done",
                  !.result = Throw("Error", "Template not found", <<>>)]
         ELSE [callers[c] EXCEPT !.pc = "validate"])

\* const validation = validateTemplateData(...); if (!validation.valid)
\* throw ...; let rendered = template.textTemplate
RenderValidate(c) ==
    /\ callers[c].pc = "validate"
    /\ LET validation ==
               validateTemplateData(callers[c].templateKey, callers[c].data)
       IN  RunStatement(c,
             IF validation.kind = "throw"
             THEN [callers[c] EXCEPT !.pc = "done", !.result = validation]
             ELSE IF ~validation.valid
             THEN [callers[c] EXCEPT !.pc = "done",
                      !.result = Throw("Error", "Missing required fields for template",
                                       validation.missingFields)]
             ELSE [callers[c] EXCEPT !.pc = "blocks",
                      !.rendered = registry[callers[c].templateKey].textTemplate])

\* the block step of a module in which rendered is declared once, outside
\* the function: the step works on the text the first caller holds
RenderBlocks_SharedText(c) ==
    /\ callers[c].pc = "blocks"
    /\ RunStatement(c,
         [callers[c] EXCEPT !.pc = "placeholders", !.n = 1,
             !.rendered = ProcessConditionalBlocks(callers[1].rendered,
                                                   callers[c].data)])

\* rendered = rendered.replace(conditionalBlockRegex, ...)
RenderBlocks(c) ==
    /\ callers[c].pc = "blocks"
    /\ RunStatement(c,
         [callers[c] EXCEPT !.pc = "placeholders", !.n = 1,
             !.rendered = ProcessConditionalBlocks(callers[c].rendered,
                                                   callers[c].data)])

\* one turn of for (const [key, value] of Object.entries(data)) {...}
RenderPlaceholder(c) ==
    /\ callers[c].pc = "placeholders"
    /\ callers[c].n <= Len(callers[c].data)
    /\ LET entry == callers[c].data[callers[c].n]
       IN  RunStatement(c,
             IF ~PatternCompiles(entry.key)
             THEN [callers[c] EXCEPT !.pc = "done",
                      !.result = Throw("SyntaxError", "Invalid regular expression", <<>>)]
             ELSE [callers[c] EXCEPT !.n = @ + 1,
                      !.rendered = ReplacePlaceholderFrom(callers[c].rendered, entry.key,
                                                          replacement(entry.value), 1)])

\* the clean-up after the loop, and return rendered
RenderWhitespace(c) ==
    /\ callers[c].pc = "placeholders"
    /\ callers[c].n > Len(callers[c].data)
    /\ RunStatement(c,
         [callers[c] EXCEPT !.pc = "done",
             !.result = ReturnText(CleanWhitespace(callers[c].rendered))])

NextConcurrent ==
    \E c \in DOMAIN callers :
        \/ RenderLookup(c)
        \/ RenderValidate(c)
        \/ RenderBlocks(c)
        \/ RenderPlaceholder(c)
        \/ RenderWhitespace(c)

SpecConcurrent == InitConcurrent /\ [][NextConcurrent]_vars

(***************************************************************************)
(* The forwarding webhook handlers.  Each is the action of a route: it     *)
(* calls authenticate.webhook, which returns the verified shop, topic and  *)
(* payload or throws a 401 Response when the HMAC does not validate, posts *)
(* the event to the Wylto backend with fetch and answers Shopify.  fetch   *)
(* resolves to a response that is ok or not ok, or rejects.                *)
(***************************************************************************)

\* most requests to the Wylto backend the model follows
MaxForwards == 2

FetchOutcomes == {"ok", "not_ok", "rejects"}

\* the POST a handler sends to the Wylto backend
ForwardBody(path, request) ==
    [url |-> path, shop |-> request.shop, topic |-> request.topic]

\* webhooks.orders.updated.jsx, lines 65-98: one try around everything, and
\* the catch answers 200
action_ordersUpdated(request, fetched) ==
    IF ~request.hmacValid
    THEN [status |-> 200, fetches |-> <<>>]
    ELSE [status |-> 200,
          fetches |-> <<ForwardBody("/api/shopify/webhook", request)>>]

\* webhooks.orders.updated.jsx, lines 166-199 (checkouts/create): as above,
\* posting to /api/shopify/webhooks
action_checkoutsCreate(request, fetched) ==
    IF ~request.hmacValid
    THEN [status |-> 200, fetches |-> <<>>]
    ELSE [status |-> 200,
          fetches |-> <<ForwardBody("/api/shopify/webhooks", request)>>]

\* webhooks.app.uninstalled.jsx: one try around everything, and the catch
\* answers 401
action_appUninstalled(request, fetched) ==
    IF ~request.hmacValid
    THEN [status |-> 401, fetches |-> <<>>]
    ELSE [status |-> IF fetched = "rejects" THEN 401 ELSE 200,
          fetches |-> <<ForwardBody("/api/shopify/webhook", request)>>]

\* customers/redact, part_003 lines 611-649: a try of its own around the
\* fetch, and the outer catch answers 401
action_customersRedact(request, fetched) ==
    IF ~request.hmacValid
    THEN [status |-> 401, fetches |-> <<>>]
    ELSE [status |-> 200,
          fetches |-> <<ForwardBody("/api/shopify/webhook", request)>>]

\* customers/redact, part_003 lines 659-691: one try around everything, and
\* the catch answers 200
action_customersRedact2(request, fetched) ==
    IF ~request.hmacValid
    THEN [status |-> 200, fetches |-> <<>>]
    ELSE [status |-> 200,
          fetches |-> <<ForwardBody("/api/shopify/webhook", request)>>]

\* the topic each forwarding route is registered for
ForwardingTopics ==
    [ordersUpdated |-> "orders/updated", checkoutsCreate |-> "checkouts/create",
     appUninstalled |-> "app/uninstalled", customersRedact |-> "customers/redact",
     customersRedact2 |-> "customers/redact"]

InitForward ==
    /\ hook = <<>> /\ forwards = <<>>
    /\ templateKey = "" /\ data = <<>> /\ op = "none" /\ result = NoResult
    /\ registry = TEMPLATES /\ inputText = <<>>
    /\ callers = <<>>
    /\ stores = <<>> /\ messageLog = <<>> /\ webhookLog = <<>>
    /\ wyltoRequests = <<>> /\ sendCall = <<>>

\* Shopify posts to the route of handler h; the handler runs to its Response
ReceiveForwardedWebhook(h) ==
    /\ Len(forwards) < MaxForwards
    /\ \E shop \in {"a.myshopify.com", "b.myshopify.com"}, valid \in BOOLEAN,
          fetched \in FetchOutcomes :
          LET request == [shop |-> shop, topic |-> ForwardingTopics[h],
                          hmacValid |-> valid]
              response ==
                  CASE h = "ordersUpdated"    -> action_ordersUpdated(request, fetched)
                    [] h = "checkoutsCreate"  -> action_checkoutsCreate(request, fetched)
                    [] h = "appUninstalled"   -> action_appUninstalled(request, fetched)
                    [] h = "customersRedact"  -> action_customersRedact(request, fetched)
                    [] h = "customersRedact2" -> action_customersRedact2(request, fetched)
          IN  /\ hook' = [handler |-> h, request |-> request,
                          fetched |-> IF valid THEN fetched ELSE "none",
                          status |-> response.status]
              /\ forwards' = forwards \o response.fetches
    /\ UNCHANGED <<engineVars, concurrentVars, sendVars>>

NextForward == \E h \in DOMAIN ForwardingTopics : ReceiveForwardedWebhook(h)

SpecForward == InitForward /\ [][NextForward]_vars

(***************************************************************************)
(* Sending WhatsApp messages: sendWhatsAppMessage with the configuration   *)
(* loader, the Wylto API client and the MessageLog writer (part_003), the  *)
(* Store service (store.server.js) and the two webhook handlers that call  *)
(* it.  A call runs from its first statement to its return; the database   *)
(* answers every query, and the Wylto API answers as it pleases.           *)
(***************************************************************************)

\* most sendWhatsAppMessage calls, and most logged webhooks, the model follows
MaxCalls == 1

\* the shop whose webhooks arrive
shopA == <<"a",".","m","y","s","h","o","p","i","f","y",".","c","o","m">>

\* a || b
OrElse(a, b) == IF Truthy(a) THEN a ELSE b

\* store.server.js: prisma.store.findUnique({where: {shopDomain}}); store is
\* <<>> for null and <<row>> for a row
getStoreByShopDomain(table, shopDomain) ==
    IF shopDomain = <<>>
    THEN [kind |-> "throw", store |-> <<>>,
          message |-> "shopDomain is required to load Store configuration"]
    ELSE [kind |-> "return", message |-> "",
          store |-> IF shopDomain \in DOMAIN table
                    THEN <<table[shopDomain]>> ELSE <<>>]

\* the loader without its step 5: a disabled shop passes
getWyltoConfigForShop_NoActiveCheck(table, shopDomain) ==
    LET thrown(m) == [kind |-> "throw", message |-> m, config |-> <<>>]
        check(found) ==
            IF found.kind = "throw" \/ found.store = <<>>
                 \/ ~Truthy(found.store[1].wyltoApiKey)
                 \/ ~Truthy(found.store[1].wyltoAccountId)
            THEN thrown("Wylto not configured")
            ELSE [kind |-> "return", message |-> "",
                  config |-> <<[apiKey    |-> found.store[1].wyltoApiKey,
                                accountId |-> found.store[1].wyltoAccountId,
                                isActive  |-> found.store[1].isActive]>>]
    IN  check(getStoreByShopDomain(table, shopDomain))

getWyltoConfigForShop(table, shopDomain) ==
    LET thrown(m) == [kind |-> "throw", message |-> m, config |-> <<>>]
        check(found) ==
            IF found.kind = "throw" THEN thrown(found.message)
            ELSE IF found.store = <<>>
            THEN thrown("Wylto not configured for shop")
            ELSE IF ~Truthy(found.store[1].wyltoApiKey)
            THEN thrown("Wylto API key not configured for shop")
            ELSE IF ~Truthy(found.store[1].wyltoAccountId)
            THEN thrown("Wylto Account ID not configured for shop")
            ELSE IF ~found.store[1].isActive
            THEN thrown("Wylto is disabled for shop")
            ELSE [kind |-> "return", message |-> "",
                  config |-> <<[apiKey    |-> found.store[1].wyltoApiKey,
                                accountId |-> found.store[1].wyltoAccountId,
                                isActive  |-> found.store[1].isActive]>>]
    IN  IF shopDomain = <<>>
        THEN thrown("shopDomain is required to load Wylto configuration")
        ELSE check(getStoreByShopDomain(table, shopDomain))

\* the update branch written like the create branch: an omitted field is
\* stored as null (isActive: false)
updateStoreConfig_OmittedAsNull(table, shopDomain, config, now) ==
    LET row == [id |-> "cuid", shopDomain |-> shopDomain,
                wyltoApiKey    |-> IF NotNullish(config.wyltoApiKey)
                                   THEN config.wyltoApiKey ELSE JSNull,
                wyltoAccountId |-> IF NotNullish(config.wyltoAccountId)
                                   THEN config.wyltoAccountId ELSE JSNull,
                isActive       |-> IF NotNullish(config.isActive)
                                   THEN config.isActive.bool ELSE FALSE,
                installedAt    |-> IF shopDomain \in DOMAIN table
                                   THEN table[shopDomain].installedAt ELSE now,
                updatedAt      |-> now]
    IN  [s \in DOMAIN table \cup {shopDomain} |->
            IF s = shopDomain THEN row ELSE table[s]]

\* store.server.js: prisma.store.upsert at time now; a field of config that
\* is undefined is left as it is on update, and is null (isActive: false) on
\* create.  A row has the columns of the Store table: id and installedAt get
\* their defaults on create, updatedAt (@updatedAt) is stamped by every write.
updateStoreConfig(table, shopDomain, config, now) ==
    LET row == IF shopDomain \in DOMAIN table
               THEN [table[shopDomain] EXCEPT
                       !.wyltoApiKey    = IF config.wyltoApiKey.type /= "undefined"
                                          THEN config.wyltoApiKey ELSE @,
                       !.wyltoAccountId = IF config.wyltoAccountId.type /= "undefined"
                                          THEN config.wyltoAccountId ELSE @,
                       !.isActive       = IF config.isActive.type /= "undefined"
                                          THEN config.isActive.bool ELSE @,
                       !.updatedAt      = now]
               ELSE [id |-> "cuid", shopDomain |-> shopDomain,
                     wyltoApiKey    |-> IF NotNullish(config.wyltoApiKey)
                                        THEN config.wyltoApiKey ELSE JSNull,
                     wyltoAccountId |-> IF NotNullish(config.wyltoAccountId)
                                        THEN config.wyltoAccountId ELSE JSNull,
                     isActive       |-> IF NotNullish(config.isActive)
                                        THEN config.isActive.bool ELSE FALSE,
                     installedAt    |-> now, updatedAt |-> now]
    IN  [s \in DOMAIN table \cup {shopDomain} |->
            IF s = shopDomain THEN row ELSE table[s]]

\* How the Wylto API answers POST /messages:
\*   "ok"         2xx, a JSON body with a message id
\*   "http_error" not 2xx, a JSON body
\*   "rejects"    fetch rejects, the timer aborts it, or the body is no JSON
WyltoAnswers == {"ok", "http_error", "rejects"}

\* the request sendToWyltoAPI makes and the result it returns; "null" is null
sendToWyltoAPI(config, recipient, messageText, answer) ==
    [request |-> [apiKey |-> StringOf(config.apiKey),
                  accountId |-> StringOf(config.accountId),
                  recipient |-> recipient, message |-> messageText],
     success |-> answer = "ok",
     wyltoMessageId |-> IF answer = "ok" THEN "wamid-1" ELSE "null",
     error |-> CASE answer = "http_error" -> "Wylto API error"
                 [] answer = "rejects" -> "Failed to send message to Wylto API"
                 [] OTHER -> "null"]

\* sentAt: new Date() whatever the status
logMessage_AlwaysSentAt(row) ==
    [shopDomain |-> row.shopDomain, recipient |-> row.recipient,
     messageType |-> row.messageType, referenceId |-> row.referenceId,
     wyltoMessageId |-> row.wyltoMessageId, status |-> row.status,
     errorMessage |-> row.errorMessage, sentAt |-> "now"]

\* the row prisma.messageLog.create writes
logMessage(row) ==
    [shopDomain |-> row.shopDomain, recipient |-> row.recipient,
     messageType |-> row.messageType, referenceId |-> row.referenceId,
     wyltoMessageId |-> row.wyltoMessageId, status |-> row.status,
     errorMessage |-> row.errorMessage,
     sentAt |-> IF row.status = "sent" THEN "now" ELSE "null"]

\* renderTemplate outside the try block: its error leaves the call unlogged
sendWhatsAppMessage_RenderOutsideTry(table, p, answer) ==
    LET row(status, message, id) ==
            logMessage([shopDomain |-> p.shopDomain, recipient |-> p.recipient,
                        messageType |-> p.templateKey,
                        referenceId |-> p.referenceId,
                        wyltoMessageId |-> id, status |-> status,
                        errorMessage |-> message])
        out(kind, message, success, error, id, logs, requests) ==
            [kind |-> kind, message |-> message, success |-> success,
             error |-> error, wyltoMessageId |-> id, logs |-> logs,
             requests |-> requests,
             answer |-> IF requests = <<>> THEN "none" ELSE answer]
        thrown(message) == out("throw", message, FALSE, "null", "null", <<>>, <<>>)
        failed(message) ==
            out("return", "", FALSE, message, "null",
                <<row("failed", message, "null")>>, <<>>)
        logged(sent) ==
            out("return", "", sent.success, sent.error, sent.wyltoMessageId,
                <<row(IF sent.success THEN "sent" ELSE "failed", sent.error,
                      sent.wyltoMessageId)>>,
                <<sent.request>>)
        tried(loaded, rendered) ==
            IF rendered.kind = "throw" THEN thrown(rendered.message)
            ELSE IF loaded.kind = "throw" THEN failed(loaded.message)
            ELSE logged(sendToWyltoAPI(loaded.config[1], p.recipient,
                                       rendered.text, answer))
    IN  IF p.shopDomain = <<>> \/ p.templateKey = "" \/ p.recipient = <<>>
        THEN thrown("parameter is required")
        ELSE tried(getWyltoConfigForShop(table, p.shopDomain),
                   renderTemplate(p.templateKey, p.record))

\* One call of sendWhatsAppMessage against the Store table, the Wylto API
\* answering `answer` if it is asked: how the call ends (kind "throw" with
\* the message thrown, or "return" with the object returned), the MessageLog
\* rows it writes and the requests it sends.  p.record is the data parameter,
\* p.recipient is `to`; a referenceId of <<>> is stored as null.
sendWhatsAppMessage(table, p, answer) ==
    LET row(status, message, id) ==
            logMessage([shopDomain |-> p.shopDomain, recipient |-> p.recipient,
                        messageType |-> p.templateKey,
                        referenceId |-> p.referenceId,
                        wyltoMessageId |-> id, status |-> status,
                        errorMessage |-> message])
        out(kind, message, success, error, id, logs, requests) ==
            [kind |-> kind, message |-> message, success |-> success,
             error |-> error, wyltoMessageId |-> id, logs |-> logs,
             requests |-> requests,
             answer |-> IF requests = <<>> THEN "none" ELSE answer]
        thrown(message) == out("throw", message, FALSE, "null", "null", <<>>, <<>>)
        failed(message) ==
            out("return", "", FALSE, message, "null",
                <<row("failed", message, "null")>>, <<>>)
        logged(sent) ==
            out("return", "", sent.success, sent.error, sent.wyltoMessageId,
                <<row(IF sent.success THEN "sent" ELSE "failed", sent.error,
                      sent.wyltoMessageId)>>,
                <<sent.request>>)
        tried(loaded, rendered) ==
            IF loaded.kind = "throw" THEN failed(loaded.message)
            ELSE IF rendered.kind = "throw" THEN failed(rendered.message)
            ELSE logged(sendToWyltoAPI(loaded.config[1], p.recipient,
                                       rendered.text, answer))
    IN  IF p.shopDomain = <<>> THEN thrown("shopDomain is required")
        ELSE IF p.templateKey = "" THEN thrown("templateKey is required")
        ELSE IF p.recipient = <<>>
        THEN thrown("recipient phone number (to) is required")
        ELSE tried(getWyltoConfigForShop(table, p.shopDomain),
                   renderTemplate(p.templateKey, p.record))

\* db.webhookLog.create with status "processing", then updateMany to
\* "completed" of every row of this shop, topic and payload
WebhookLogged(wlog, request) ==
    LET created == Append(wlog, [shopDomain |-> request.shop, topic |-> request.topic,
                                 payload |-> request.payload, status |-> "processing"])
    IN  [i \in 1..Len(created) |->
            IF /\ created[i].shopDomain = request.shop
               /\ created[i].topic = request.topic
               /\ created[i].payload = request.payload
            THEN [created[i] EXCEPT !.status = "completed"]
            ELSE created[i]]

\* what a handler leaves behind: its Response status, the WebhookLog table,
\* and its sendWhatsAppMessage call (<<>> when it makes none) with the
\* parameters passed and how the call ended
Handled(status, wlog, calls) == [status |-> status, webhookLog |-> wlog, calls |-> calls]

\* await sendWhatsAppMessage(p) inside try { } catch { }: the parameters passed
\* and how the call ended
Call(table, p, answer) ==
    [params |-> p, ended |-> sendWhatsAppMessage(table, p, answer)]

\* webhooks.orders.create.jsx
action_ordersCreate(table, wlog, request, answer) ==
    LET payload == request.payload
        p == [shopDomain |-> request.shop, templateKey |-> "ORDER_CREATED",
              recipient |-> StringOf(payload.phone),
              record |->
                <<Entry(customerName,
                        OrElse(payload.first_name,
                               JSString(<<"C","u","s","t","o","m","e","r">>))),
                  Entry(orderNumber,
                        OrElse(payload.name,
                               JSString(<<"#">> \o StringOf(payload.id)))),
                  Entry(shopName,
                        LET at == FirstIndexFrom(request.shop,
                                      <<".","m","y","s","h","o","p","i","f","y",
                                        ".","c","o","m">>, 1)
                        IN  JSString(IF at = 0 THEN request.shop
                                     ELSE SubSeq(request.shop, 1, at - 1)
                                          \o SubSeq(request.shop, at + 14,
                                                    Len(request.shop)))),
                  Entry(total, OrElse(payload.total_price, JSString(<<"0">>))),
                  Entry(currency, OrElse(payload.currency, JSString(<<"U","S","D">>))),
                  Entry(orderUrl,
                        JSString(<<"h","t","t","p","s",":","/","/">> \o request.shop
                                 \o <<"/","a","d","m","i","n","/","o","r","d","e","r","s","/">>
                                 \o StringOf(payload.id)))>>,
              referenceId |-> StringOf(payload.id)]
    IN  IF ~request.hmacValid THEN Handled(401, wlog, <<>>)
        ELSE Handled(200, WebhookLogged(wlog, request),
                     IF Truthy(payload.phone) THEN <<Call(table, p, answer)>>
                     ELSE <<>>)

\* webhooks.fulfillments.create.jsx
action_fulfillmentsCreate(table, wlog, request, answer) ==
    LET payload == request.payload
        p == [shopDomain |-> request.shop, templateKey |-> "ORDER_FULFILLED",
              recipient |-> StringOf(payload.phone),
              record |->
                <<Entry(customerName,
                        OrElse(payload.first_name,
                               JSString(<<"C","u","s","t","o","m","e","r">>))),
                  Entry(orderNumber,
                        OrElse(payload.name,
                               JSString(<<"#">> \o StringOf(payload.order_id)))),
                  Entry(trackingNumber, payload.tracking_number),
                  Entry(carrier, payload.tracking_company)>>,
              referenceId |-> StringOf(payload.order_id)]
    IN  IF ~request.hmacValid THEN Handled(401, wlog, <<>>)
        ELSE Handled(200, WebhookLogged(wlog, request),
                     IF /\ NotNullish(payload.order_id)
                        /\ StringOf(payload.order_id) /= <<>>
                        /\ Truthy(payload.phone)
                     THEN <<Call(table, p, answer)>>
                     ELSE <<>>)

\* app.test-webhooks.jsx calls sendWhatsAppMessage with ORDER_FULFILLED data
\* and with ORDER_CANCELLED data that lacks shopName; any module may call the
\* exported function with a parameter left empty or a key of no template
SendParams ==
    LET call(s, k, r) ==
            [shopDomain |-> s, templateKey |-> k, recipient |-> r,
             record |-> SampleRecord(<<customerName, orderNumber>>),
             referenceId |-> <<>>]
    IN  {call(shopA, k, <<"+","1">>) :
            k \in {"ORDER_FULFILLED", "ORDER_CANCELLED", "NOT_A_TEMPLATE", ""}}
          \cup {call(<<>>, "ORDER_FULFILLED", <<"+","1">>),
                call(shopA, "ORDER_FULFILLED", <<>>)}

\* orders/create payloads: a phone and nothing else, all but the phone
OrderPayloads ==
    {[id |-> JSNumber(7), phone |-> JSString(<<"+","1">>),
      name |-> JSUndefined, first_name |-> JSUndefined,
      total_price |-> JSUndefined, currency |-> JSUndefined],
     [id |-> JSNumber(7), phone |-> JSUndefined,
      name |-> JSString(<<"#","1","0">>), first_name |-> SampleValue(customerName),
      total_price |-> SampleValue(total), currency |-> SampleValue(currency)]}

\* fulfillments/create payloads: an order's phone and no tracking data, no
\* phone, no order_id
FulfillmentPayloads ==
    LET fulfillment(o, ph, t) ==
            [id |-> JSNumber(9), order_id |-> o, phone |-> ph,
             name |-> JSString(<<"#","1","0">>),
             first_name |-> SampleValue(customerName),
             tracking_number |-> t, tracking_company |-> t]
    IN  {fulfillment(JSNumber(7), JSString(<<"+","1">>), JSUndefined),
         fulfillment(JSNumber(7), JSNull, SampleValue(trackingNumber)),
         fulfillment(JSUndefined, JSString(<<"+","1">>), SampleValue(trackingNumber))}

\* what the app saves: app._index.jsx connects the account with both
\* credentials, app.wylto-settings.jsx saves all three fields (credentials
\* required only when the switch is on), and any module may update one field
StoreConfigs ==
    {[wyltoApiKey |-> JSString(<<"k">>), wyltoAccountId |-> JSString(<<"a","c">>),
      isActive |-> JSBoolean(TRUE)],
     [wyltoApiKey |-> JSString(<<"k">>), wyltoAccountId |-> JSString(<<"a","c">>),
      isActive |-> JSBoolean(FALSE)],
     [wyltoApiKey |-> JSString(<<"k">>), wyltoAccountId |-> JSNull,
      isActive |-> JSBoolean(FALSE)],
     [wyltoApiKey |-> JSNull, wyltoAccountId |-> JSUndefined,
      isActive |-> JSUndefined]}

\* before the first call
NoSend ==
    [seq |-> 0, caller |-> "none", params |-> <<>>, kind |-> "none",
     message |-> "", success |-> FALSE, error |-> "null",
     wyltoMessageId |-> "null", answer |-> "none"]

InitSend ==
    /\ stores = <<>> /\ messageLog = <<>> /\ webhookLog = <<>>
    /\ wyltoRequests = <<>> /\ sendCall = NoSend
    /\ hook = <<>> /\ forwards = <<>>
    /\ templateKey = "" /\ data = <<>> /\ op = "none" /\ result = NoResult
    /\ registry = TEMPLATES /\ inputText = <<>>
    /\ callers = <<>>

\* the call `caller` made with parameters p has ended as `ended`
Called(caller, p, ended) ==
    /\ messageLog' = messageLog \o ended.logs
    /\ wyltoRequests' = wyltoRequests \o ended.requests
    /\ sendCall' = [seq |-> sendCall.seq + 1, caller |-> caller, params |-> p,
                    kind |-> ended.kind, message |-> ended.message,
                    success |-> ended.success, error |-> ended.error,
                    wyltoMessageId |-> ended.wyltoMessageId,
                    answer |-> ended.answer]

\* a module calls sendWhatsAppMessage
CallSendWhatsAppMessage ==
    /\ sendCall.seq < MaxCalls
    /\ \E p \in SendParams, answer \in WyltoAnswers :
          \E made \in {Call(stores, p, answer)} :
              Called("direct", made.params, made.ended)
    /\ UNCHANGED <<stores, webhookLog>>
    /\ UNCHANGED <<engineVars, concurrentVars, forwardVars>>

\* Shopify posts a webhook to the route of handler h, which runs to its Response
ReceiveWebhook(h) ==
    /\ sendCall.seq < MaxCalls
    /\ Len(webhookLog) < MaxCalls
    /\ \E valid \in BOOLEAN, answer \in WyltoAnswers,
          payload \in IF h = "ordersCreate" THEN OrderPayloads ELSE FulfillmentPayloads :
          \E request \in {[shop |-> shopA, hmacValid |-> valid, payload |-> payload,
                           topic |-> IF h = "ordersCreate" THEN "orders/create"
                                     ELSE "fulfillments/create"]} :
          \E handled \in {IF h = "ordersCreate"
                          THEN action_ordersCreate(stores, webhookLog, request, answer)
                          ELSE action_fulfillmentsCreate(stores, webhookLog, request, answer)} :
              /\ hook' = [handler |-> h, status |-> handled.status,
                          called |-> handled.calls /= <<>>]
              /\ webhookLog' = handled.webhookLog
              /\ IF handled.calls /= <<>>
                 THEN Called(h, handled.calls[1].params, handled.calls[1].ended)
                 ELSE UNCHANGED <<messageLog, wyltoRequests, sendCall>>
    /\ UNCHANGED <<stores, forwards>>
    /\ UNCHANGED <<engineVars, concurrentVars>>

\* the settings page saves a configuration for the shop; the time of the
\* write is not followed here, every row is stamped 0
UpdateStoreConfig ==
    /\ \E config \in StoreConfigs : stores' = updateStoreConfig(stores, shopA, config, 0)
    /\ UNCHANGED <<messageLog, webhookLog, wyltoRequests, sendCall>>
    /\ UNCHANGED <<engineVars, concurrentVars, forwardVars>>

NextSend ==
    \/ CallSendWhatsAppMessage
    \/ \E h \in {"ordersCreate", "fulfillmentsCreate"} : ReceiveWebhook(h)
    \/ UpdateStoreConfig

SpecSend == InitSend /\ [][NextSend]_vars

(***************************************************************************)
(* The Store service and the pages that write the Store table: the         *)
(* connection helpers of wylto-connection.server.js, the home page         *)
(* (app._index.jsx) and the settings page (app.wylto-settings.jsx).  The   *)
(* time of a write is the number of writes the row has seen.               *)
(***************************************************************************)

\* most writes to a Store row the model follows
MaxWrites == 2

\* How the Wylto backend answers a connection request:
\*   "ok_full"   2xx, JSON {connected: true, appId, appName}
\*   "ok_empty"  2xx, JSON {}
\*   "bad_json"  2xx, a body that is no JSON
\*   "s401", "s404", "s503"  that status ("s404_unknown": its body says
\*               Store not found)
\*   "other"     another non-2xx status with a text body; "html": with an
\*               HTML error page
\*   "timeout"   the timer aborts the fetch; "network": fetch failed
RemoteOutcomes ==
    {"ok_full", "ok_empty", "bad_json", "s401", "s404", "s404_unknown",
     "s503", "other", "html", "timeout", "network"}

\* the JSON body of a 2xx answer, by the fields the app reads
RemoteData(remote) ==
    IF remote = "ok_full"
    THEN [connected |-> JSBoolean(TRUE), appId |-> JSString(<<"a","p">>),
          appName |-> JSString(<<"A">>)]
    ELSE [connected |-> JSUndefined, appId |-> JSUndefined, appName |-> JSUndefined]

\* what the try/catch around fetch makes of an answer that is not 2xx JSON
\* and not a 404: the error of the object returned
RemoteError(remote) ==
    CASE remote = "s401"    -> "Authentication failed"
      [] remote = "s503"    -> "Wylto API server is temporarily unavailable"
      [] remote = "html"    -> "Wylto API server error"
      [] remote = "other"   -> "HTTP error! status"
      [] remote = "timeout" -> "Request timed out"
      [] remote = "network" -> "Cannot connect to Wylto API server"
      [] OTHER              -> "Unexpected token"

\* env is the process environment: testMode is WYLTO_TEST_MODE === "true",
\* apiToken is whether WYLTO_API_TOKEN is set.  The functions end "resolve"
\* with the object returned or "reject" with the error thrown.
saveAccessToken(env, shop, accessToken, remote) ==
    LET ended(success, error, body) ==
            [kind |-> "resolve", success |-> success, error |-> error, data |-> body]
    IN  IF env.testMode THEN ended(TRUE, "none", RemoteData("ok_empty"))
        ELSE IF ~env.apiToken THEN ended(FALSE, "WYLTO_API_TOKEN not configured",
                                         RemoteData("none"))
        ELSE IF ~Truthy(shop) \/ ~Truthy(accessToken)
        THEN ended(FALSE, "Shop and accessToken are required", RemoteData("none"))
        ELSE IF remote \in {"ok_full", "ok_empty"}
        THEN ended(TRUE, "none", RemoteData(remote))
        ELSE IF remote \in {"s404", "s404_unknown"}
        THEN ended(FALSE, "HTTP error! status", RemoteData("none"))
        ELSE ended(FALSE, RemoteError(remote), RemoteData("none"))

connectToApp(env, shop, wyltoToken, remote) ==
    LET ended(success, error, body) ==
            [kind |-> "resolve", success |-> success, error |-> error, data |-> body]
    IN  IF env.testMode
        THEN IF Truthy(wyltoToken) /\ wyltoToken.type /= "string"
             THEN [kind |-> "reject", success |-> FALSE,
                   error |-> "wyltoToken.slice is not a function",
                   data |-> RemoteData("none")]
             ELSE ended(TRUE, "none",
                        [connected |-> JSUndefined,
                         appId |-> JSString(<<"t","e","s","t","_","a","p","p">>),
                         appName |-> JSString(<<"T","e","s","t">>)])
        ELSE IF ~env.apiToken THEN ended(FALSE, "WYLTO_API_TOKEN not configured",
                                         RemoteData("none"))
        ELSE IF ~Truthy(shop) \/ ~Truthy(wyltoToken)
        THEN ended(FALSE, "Shop and wyltoToken are required", RemoteData("none"))
        ELSE IF remote \in {"ok_full", "ok_empty"}
        THEN ended(TRUE, "none", RemoteData(remote))
        ELSE IF remote = "s404_unknown"
        THEN ended(FALSE, "Store not registered with Wylto", RemoteData("none"))
        ELSE IF remote = "s404"
        THEN ended(FALSE, "Body is unusable", RemoteData("none"))
        ELSE ended(FALSE, RemoteError(remote), RemoteData("none"))

checkConnectionStatus(env, table, shop, remote) ==
    LET ended(connected, error, body) ==
            [kind |-> "resolve", connected |-> connected, error |-> error,
             data |-> body]
        found == getStoreByShopDomain(table, StringOf(shop))
    IN  IF env.testMode
        THEN IF ~Truthy(shop)
             THEN [kind |-> "reject", connected |-> FALSE,
                   error |-> "shopDomain is required to load Store configuration",
                   data |-> RemoteData("none")]
             ELSE IF /\ found.store /= <<>>
                     /\ Truthy(found.store[1].wyltoApiKey)
                     /\ found.store[1].isActive
             THEN ended(TRUE, "none",
                        [connected |-> JSBoolean(TRUE),
                         appId |-> found.store[1].wyltoApiKey,
                         appName |-> OrElse(found.store[1].wyltoAccountId,
                                            JSString(<<"T","e","s","t">>))])
             ELSE ended(FALSE, "none",
                        [connected |-> JSBoolean(FALSE), appId |-> JSUndefined,
                         appName |-> JSUndefined])
        ELSE IF ~env.apiToken THEN ended(FALSE, "WYLTO_API_TOKEN not configured",
                                         RemoteData("none"))
        ELSE IF ~Truthy(shop) THEN ended(FALSE, "Shop is required", RemoteData("none"))
        ELSE IF remote \in {"ok_full", "ok_empty"}
        THEN ended(RemoteData(remote).connected = JSBoolean(TRUE), "none",
                   RemoteData(remote))
        ELSE IF remote \in {"s404", "s404_unknown"}
        THEN ended(FALSE, "none", RemoteData("none"))
        ELSE ended(FALSE, RemoteError(remote), RemoteData("none"))

\* store.server.js: the table after getOrCreateStore at time now
getOrCreateStore(table, shopDomain, now) ==
    IF shopDomain \in DOMAIN table THEN table
    ELSE [s \in DOMAIN table \cup {shopDomain} |->
            IF s = shopDomain
            THEN [id |-> "cuid", shopDomain |-> shopDomain, wyltoApiKey |-> JSNull,
                  wyltoAccountId |-> JSNull, isActive |-> FALSE,
                  installedAt |-> now, updatedAt |-> now]
            ELSE table[s]]

\* app.wylto-settings.jsx, action: the object returned (success) and the
\* Store table left behind
action_settingsSave(table, shopDomain, form, now) ==
    IF form.isActive /\ (form.wyltoApiKey = <<>> \/ form.wyltoAccountId = <<>>)
    THEN [success |-> FALSE, stores |-> table]
    ELSE [success |-> TRUE,
          stores |-> updateStoreConfig(table, shopDomain,
                        [wyltoApiKey |-> OrElse(JSString(form.wyltoApiKey), JSNull),
                         wyltoAccountId |-> OrElse(JSString(form.wyltoAccountId), JSNull),
                         isActive |-> JSBoolean(form.isActive)], now)]

\* app._index.jsx:30-86, action, actionType "save"
action_homeSave(table, shopDomain, form, now) ==
    IF form.wyltoApiKey = <<>> \/ form.wyltoAccountId = <<>>
    THEN [success |-> FALSE, stores |-> table]
    ELSE [success |-> TRUE,
          stores |-> updateStoreConfig(table, shopDomain,
                        [wyltoApiKey |-> JSString(form.wyltoApiKey),
                         wyltoAccountId |-> JSString(form.wyltoAccountId),
                         isActive |-> JSBoolean(TRUE)], now)]

\* the connect action giving up when saveAccessToken reports failure
action_homeConnect_StopsAfterFailedSave(env, table, shopDomain, wyltoToken, remoteSave, remoteConnect, now) ==
    LET page(success, written, calls) ==
            [success |-> success, stores |-> written, calls |-> calls]
        call(name, ended) == [name |-> name, ended |-> ended]
        linked(saved, linkResult) ==
            IF linkResult.kind = "reject" \/ ~linkResult.success
            THEN page(FALSE, table, <<saved, call("connectToApp", linkResult)>>)
            ELSE page(TRUE,
                      updateStoreConfig(table, shopDomain,
                          [isActive |-> JSBoolean(TRUE),
                           wyltoApiKey |-> OrElse(linkResult.data.appId, JSNull),
                           wyltoAccountId |-> OrElse(linkResult.data.appName, JSNull)],
                          now),
                      <<saved, call("connectToApp", linkResult),
                        call("updateStoreConfig", linkResult)>>)
        registered(saveResult) ==
            IF saveResult.kind = "reject" \/ ~saveResult.success
            THEN page(FALSE, table, <<call("saveAccessToken", saveResult)>>)
            ELSE linked(call("saveAccessToken", saveResult),
                        connectToApp(env, JSString(shopDomain), JSString(wyltoToken),
                                     remoteConnect))
    IN  IF wyltoToken = <<>> THEN page(FALSE, table, <<>>)
        ELSE registered(saveAccessToken(env, JSString(shopDomain),
                                        JSString(<<"s","h","p","a","t">>), remoteSave))

\* app._index.jsx:349-446, action, actionType "connect": the object returned,
\* the Store table left behind, and the helpers called, in the order of the
\* calls, each with how it ended.  session.accessToken is a non-empty string.
action_homeConnect(env, table, shopDomain, wyltoToken, remoteSave, remoteConnect, now) ==
    LET page(success, written, calls) ==
            [success |-> success, stores |-> written, calls |-> calls]
        call(name, ended) == [name |-> name, ended |-> ended]
        linked(saved, linkResult) ==
            IF linkResult.kind = "reject" \/ ~linkResult.success
            THEN page(FALSE, table, <<saved, call("connectToApp", linkResult)>>)
            ELSE page(TRUE,
                      updateStoreConfig(table, shopDomain,
                          [isActive |-> JSBoolean(TRUE),
                           wyltoApiKey |-> OrElse(linkResult.data.appId, JSNull),
                           wyltoAccountId |-> OrElse(linkResult.data.appName, JSNull)],
                          now),
                      <<saved, call("connectToApp", linkResult),
                        call("updateStoreConfig", linkResult)>>)
        registered(saveResult) ==
            IF saveResult.kind = "reject"
            THEN page(FALSE, table, <<call("saveAccessToken", saveResult)>>)
            ELSE linked(call("saveAccessToken", saveResult),
                        connectToApp(env, JSString(shopDomain), JSString(wyltoToken),
                                     remoteConnect))
    IN  IF wyltoToken = <<>> THEN page(FALSE, table, <<>>)
        ELSE registered(saveAccessToken(env, JSString(shopDomain),
                                        JSString(<<"s","h","p","a","t">>), remoteSave))

\* the time of the next write to the shop's row
Now(table) == IF shopA \in DOMAIN table THEN table[shopA].updatedAt + 1 ELSE 0

InitStore ==
    /\ stores = <<>> /\ hook = [op |-> "none"]
    /\ forwards = <<>> /\ messageLog = <<>> /\ webhookLog = <<>>
    /\ wyltoRequests = <<>> /\ sendCall = <<>>
    /\ templateKey = "" /\ data = <<>> /\ op = "none" /\ result = NoResult
    /\ registry = TEMPLATES /\ inputText = <<>>
    /\ callers = <<>>

\* a module calls getOrCreateStore for the shop
CallGetOrCreateStore ==
    /\ stores' = getOrCreateStore(stores, shopA, Now(stores))
    /\ hook' = [op |-> "getOrCreateStore", created |-> shopA \notin DOMAIN stores]
    /\ UNCHANGED <<forwards, messageLog, webhookLog, wyltoRequests, sendCall>>
    /\ UNCHANGED <<engineVars, concurrentVars>>

\* the merchant submits the form of the settings page or of the home page
SavePage(page) ==
    /\ Now(stores) <= MaxWrites
    /\ \E form \in [wyltoApiKey : {<<>>, <<"k">>}, wyltoAccountId : {<<>>, <<"a","c">>},
                    isActive : BOOLEAN] :
       \E saved \in {IF page = "settings"
                     THEN action_settingsSave(stores, shopA, form, Now(stores))
                     ELSE action_homeSave(stores, shopA, form, Now(stores))} :
          /\ stores' = saved.stores
          /\ hook' = [op |-> page, form |-> form, success |-> saved.success]
    /\ UNCHANGED <<forwards, messageLog, webhookLog, wyltoRequests, sendCall>>
    /\ UNCHANGED <<engineVars, concurrentVars>>

\* the merchant submits a Wylto app token on the home page; env is the
\* environment of the process that serves the request (the table outlives it)
Connect ==
    /\ Now(stores) <= MaxWrites
    /\ \E env \in [testMode : BOOLEAN, apiToken : BOOLEAN], wyltoToken \in {<<>>, <<"t">>},
          remoteSave \in {"ok_empty", "s401", "timeout"},
          remoteConnect \in RemoteOutcomes :
       \E connected \in {action_homeConnect(env, stores, shopA, wyltoToken,
                                            remoteSave, remoteConnect, Now(stores))} :
          /\ stores' = connected.stores
          /\ hook' = [op |-> "connect", env |-> env, wyltoToken |-> wyltoToken,
                      calls |-> connected.calls, success |-> connected.success]
    /\ UNCHANGED <<forwards, messageLog, webhookLog, wyltoRequests, sendCall>>
    /\ UNCHANGED <<engineVars, concurrentVars>>

\* a module calls updateStoreConfig with some fields left undefined
CallUpdateStoreConfig ==
    /\ Now(stores) <= MaxWrites
    /\ \E config \in [wyltoApiKey : {JSUndefined, JSNull, JSString(<<"k">>)},
                      wyltoAccountId : {JSUndefined, JSString(<<"a","c">>)},
                      isActive : {JSUndefined, JSBoolean(TRUE), JSBoolean(FALSE)}]
                      \ {[wyltoApiKey |-> JSUndefined, wyltoAccountId |-> JSUndefined,
                          isActive |-> JSUndefined]} :
          /\ stores' = updateStoreConfig(stores, shopA, config, Now(stores))
          /\ hook' = [op |-> "updateStoreConfig", config |-> config,
                      existed |-> shopA \in DOMAIN stores]
    /\ UNCHANGED <<forwards, messageLog, webhookLog, wyltoRequests, sendCall>>
    /\ UNCHANGED <<engineVars, concurrentVars>>

\* a module calls one of the connection helpers with the arguments drawn
CallConnectionHelper(f) ==
    /\ hook.op = "none"
    /\ hook' = [op |-> f, env |-> hook.env, shop |-> hook.shop, token |-> hook.token,
                remote |-> hook.remote,
                ended |-> CASE f = "saveAccessToken" ->
                                 saveAccessToken(hook.env, hook.shop, hook.token,
                                                 hook.remote)
                            [] f = "connectToApp" ->
                                 connectToApp(hook.env, hook.shop, hook.token,
                                              hook.remote)
                            [] OTHER ->
                                 checkConnectionStatus(hook.env, stores, hook.shop,
                                                       hook.remote)]
    /\ UNCHANGED stores
    /\ UNCHANGED <<forwards, messageLog, webhookLog, wyltoRequests, sendCall>>
    /\ UNCHANGED <<engineVars, concurrentVars>>

\* the pages of the app and the Store service they call
SpecPages ==
    InitStore /\ [][\/ CallGetOrCreateStore
                    \/ \E page \in {"settings", "home"} : SavePage(page)
                    \/ Connect]_vars

\* the Store service called directly
SpecStore == InitStore /\ [][CallGetOrCreateStore \/ CallUpdateStoreConfig]_vars

\* a helper about to be called: an environment, arguments, an answer of the
\* backend, and a Store table without the shop's row, with the row
\* getOrCreateStore makes, or with a connected row
InitHelpers ==
    /\ \E env \in [testMode : BOOLEAN, apiToken : BOOLEAN], remote \in RemoteOutcomes,
          shop \in {JSString(shopA), JSString(<<>>)},
          token \in {JSString(<<"t">>), JSUndefined, JSNumber(7)} :
          hook = [op |-> "none", env |-> env, shop |-> shop, token |-> token,
                  remote |-> remote]
    /\ stores \in {<<>>, getOrCreateStore(<<>>, shopA, 0),
                   action_homeSave(<<>>, shopA,
                       [wyltoApiKey |-> <<"k">>, wyltoAccountId |-> <<"a","c">>], 0).stores}
    /\ forwards = <<>> /\ messageLog = <<>> /\ webhookLog = <<>>
    /\ wyltoRequests = <<>> /\ sendCall = <<>>
    /\ templateKey = "" /\ data = <<>> /\ op = "none" /\ result = NoResult
    /\ registry = TEMPLATES /\ inputText = <<>>
    /\ callers = <<>>

SpecHelpers ==
    InitHelpers
      /\ [][\E f \in {"saveAccessToken", "connectToApp", "checkConnectionStatus"} :
                CallConnectionHelper(f)]_vars

(***************************************************************************)
(* Webhook handlers that only log: unnamed/part_005 (orders/create) and    *)
(* webhooks.checkouts.update.jsx.  Each statement that awaits the database *)
(* either succeeds or throws; `failure` names the statement that throws    *)
(* in a delivery ("none" when none does) and catchFails says whether the   *)
(* create of the catch block throws too.                                   *)
(***************************************************************************)

\* the number of deliveries followed
MaxDeliveries == 2

\* JSON.stringify(payload) of a payload {id, completed_at}, completed_at
\* being null or a date
JSON_stringify(payload) ==
    <<"{","\"","i","d","\"",":">> \o NatToString(payload.id)
      \o <<",","\"","c","o","m","p","l","e","t","e","d","_","a","t","\"",":">>
      \o (IF payload.completed_at THEN <<"\"","2","0","2","5","\"">>
                                  ELSE <<"n","u","l","l">>)
      \o <<"}">>

\* webhook.service.js, createWebhookLog; shopDomain and topic come from
\* authenticate.webhook and are non-empty.  errorMessage "" stands for null,
\* which leaves the column NULL.
createWebhookLog(wlog, shopDomain, topic, payload, status, errorMessage) ==
    Append(wlog, [shopDomain |-> shopDomain, topic |-> topic,
                  payload |-> JSON_stringify(payload), status |-> status,
                  errorMessage |-> errorMessage])

\* webhook.service.js, updateManyWebhookLogs(shopDomain, {topic, payload},
\* {status}): every row of the where clause gets the status
updateManyWebhookLogs(wlog, shopDomain, topic, payloadText, status) ==
    [i \in 1..Len(wlog) |->
        IF /\ wlog[i].shopDomain = shopDomain
           /\ wlog[i].topic = topic
           /\ wlog[i].payload = payloadText
        THEN [wlog[i] EXCEPT !.status = status]
        ELSE wlog[i]]

\* unnamed/part_005, action: the Response status ("rejects" when the promise
\* of the handler rejects) and the WebhookLog table left behind
action_ordersCreateLogging(wlog, request, failure, catchFails) ==
    LET caught(table) ==
            IF catchFails THEN [status |-> "rejects", webhookLog |-> table]
            ELSE [status |-> "500",
                  webhookLog |-> createWebhookLog(table, request.shop, request.topic,
                                                  request.payload, "failed", "db error")]
        logged(created) ==
            IF failure = "updateMany" THEN caught(created)
            ELSE [status |-> "200",
                  webhookLog |-> updateManyWebhookLogs(created, request.shop,
                                     request.topic, JSON_stringify(request.payload),
                                     "completed")]
    IN  IF failure = "create" THEN caught(wlog)
        ELSE logged(createWebhookLog(wlog, request.shop, request.topic,
                                     request.payload, "processing", ""))

\* webhooks.checkouts.update.jsx, action
action_checkoutsUpdate(wlog, request, failure, catchFails) ==
    LET caught(table) ==
            IF catchFails THEN [status |-> "rejects", webhookLog |-> table]
            ELSE [status |-> "500",
                  webhookLog |-> createWebhookLog(table, request.shop, request.topic,
                                                  request.payload, "failed", "db error")]
        logged(created) ==
            IF request.payload.completed_at /\ failure = "pendingCart"
            THEN caught(created)
            ELSE IF failure = "updateMany" THEN caught(created)
            ELSE [status |-> "200",
                  webhookLog |-> updateManyWebhookLogs(created, request.shop,
                                     request.topic, JSON_stringify(request.payload),
                                     "completed")]
    IN  IF failure = "create" THEN caught(wlog)
        ELSE logged(createWebhookLog(wlog, request.shop, request.topic,
                                     request.payload, "processing", ""))

\* Shopify delivers a webhook (a new one, or one it delivered before) and the
\* handler of its topic runs to its end.  hook keeps the delivery, the
\* handler's answer, and where in the table the delivery's rows start.
Deliver ==
    /\ (IF hook.op = "none" THEN 0 ELSE hook.n) < MaxDeliveries
    /\ \E topic \in {"orders/create", "checkouts/update"},
          payload \in [id : {1}, completed_at : BOOLEAN],
          failure \in {"none", "create", "pendingCart", "updateMany"},
          catchFails \in BOOLEAN :
          /\ failure = "pendingCart" => (topic = "checkouts/update" /\ payload.completed_at)
          /\ catchFails => failure /= "none"
          /\ \E request \in {[shop |-> shopA, topic |-> topic, payload |-> payload]} :
             \E handled \in {IF topic = "orders/create"
                             THEN action_ordersCreateLogging(webhookLog, request,
                                                             failure, catchFails)
                             ELSE action_checkoutsUpdate(webhookLog, request,
                                                         failure, catchFails)} :
                /\ webhookLog' = handled.webhookLog
                /\ hook' = [op |-> "deliver",
                            n |-> IF hook.op = "none" THEN 1 ELSE hook.n + 1,
                            request |-> request, failure |-> failure,
                            status |-> handled.status,
                            first |-> Len(webhookLog) + 1]
    /\ UNCHANGED <<stores, forwards, messageLog, wyltoRequests, sendCall>>
    /\ UNCHANGED <<engineVars, concurrentVars>>

SpecLog == InitStore /\ [][Deliver]_vars

(***************************************************************************)
(* Concurrent getOrCreateStore calls.  The function awaits findUnique and  *)
(* then, when that found nothing, awaits create; requests served at the    *)
(* same time interleave at these two awaits.  Store_shopDomain_key makes   *)
(* the create of a second row for a shopDomain fail.                       *)
(***************************************************************************)

\* the number of getOrCreateStore calls followed
MaxStoreCalls == 3

\* a request calls getOrCreateStore(shopDomain)
StartGetOrCreateStore ==
    /\ Len(callers) < MaxStoreCalls
    /\ \E shopDomain \in {shopA, <<"b">> \o Tail(shopA)} :
          callers' = Append(callers, [shopDomain |-> shopDomain, pc |-> "findUnique",
                                      kind |-> "none", store |-> <<>>])
    /\ UNCHANGED <<engineVars, forwardVars, sendVars>>

\* const existing = await getStoreByShopDomain(shopDomain);
\* if (existing) return existing;
FindStore(c) ==
    /\ callers[c].pc = "findUnique"
    /\ callers' =
         [callers EXCEPT ![c] =
             IF @.shopDomain \in DOMAIN stores
             THEN [@ EXCEPT !.pc = "done", !.kind = "resolve",
                            !.store = <<stores[callers[c].shopDomain]>>]
             ELSE [@ EXCEPT !.pc = "create"]]
    /\ UNCHANGED <<engineVars, forwardVars, sendVars>>

\* return prisma.store.create({data: {shopDomain, isActive: false, ...}}).
\* With a row of this shopDomain in the table the unique index refuses the
\* insert and the call rejects.
CreateStore(c) ==
    /\ callers[c].pc = "create"
    /\ IF callers[c].shopDomain \in DOMAIN stores
       THEN /\ callers' = [callers EXCEPT ![c] =
                              [@ EXCEPT !.pc = "done", !.kind = "reject"]]
            /\ UNCHANGED stores
       ELSE \E written \in {getOrCreateStore(stores, callers[c].shopDomain,
                                             Cardinality(DOMAIN stores))} :
               /\ stores' = written
               /\ callers' = [callers EXCEPT ![c] =
                                 [@ EXCEPT !.pc = "done", !.kind = "resolve",
                                           !.store = <<written[callers[c].shopDomain]>>]]
    /\ UNCHANGED <<messageLog, webhookLog, wyltoRequests, sendCall>>
    /\ UNCHANGED <<engineVars, forwardVars>>

SpecCreate ==
    InitStore /\ [][StartGetOrCreateStore
                      \/ \E c \in DOMAIN callers : FindStore(c) \/ CreateStore(c)]_vars

(***************************************************************************)
(* Vocabulary of the specification, used to state the claims               *)
(***************************************************************************)

\* the specification's "present": the value is not null, not undefined and,
\* when a string, not empty (so that 0 and false are present)
Present(d, field) ==
    /\ HasKey(d, field)
    /\ NotNullish(Get(d, field))
    /\ ~IsEmptyString(Get(d, field))

Registered(k) == k \in SeqToSet(getAllTemplateKeys)

\* the error renderTemplate throws for an unregistered key
RaisedTemplateNotFound(r) ==
    r.kind = "throw" /\ r.threw = "Error" /\ r.message = "Template not found"

\* the error renderTemplate throws when required fields are missing
RaisedMissingRequiredFields(r) ==
    /\ r.kind = "throw" /\ r.threw = "Error"
    /\ r.message = "Missing required fields for template"

\* lit occurs somewhere in s
Contains(s, lit) == \E i \in 1..(Len(s) + 1) : MatchLit(s, i, lit)

\* The substitution the specification describes: every {{key}} of text whose
\* key is a property of d is replaced, literally and in one pass, by
\* String(value), or by nothing when the value is null or undefined.
RECURSIVE LiteralSubstitute(_, _, _)
LiteralSubstitute(text, d, i) ==
    LET starts == {x \in i..Len(text) :
                      \E n \in 1..Len(d) : MatchLit(text, x, Ph(d[n].key))}
    IN  IF starts = {} THEN SubSeq(text, i, Len(text))
        ELSE LET first == Least(starts)
                 n     == CHOOSE n \in 1..Len(d) : MatchLit(text, first, Ph(d[n].key))
                 value == d[n].value
             IN  SubSeq(text, i, first - 1)
                   \o (IF NotNullish(value) THEN StringOf(value) ELSE <<>>)
                   \o LiteralSubstitute(text, d, first + Len(Ph(d[n].key)))

\* the fields f for which template k contains a block {{#f}}X{{/f}}
BlockFields(k) ==
    {f \in RequiredFields(k) \cup OptionalFields(k) :
        LET at == FirstIndexFrom(TEMPLATES[k].textTemplate, Open(f), 1)
        IN  at > 0 /\ FirstIndexFrom(TEMPLATES[k].textTemplate, Close(f), at) > 0}

\* the X of the block {{#f}}X{{/f}} of template k
BlockText(k, f) ==
    LET body == TEMPLATES[k].textTemplate
        at   == FirstIndexFrom(body, Open(f), 1)
    IN  SubSeq(body, at + Len(Open(f)), FirstIndexFrom(body, Close(f), at) - 1)

\* the literal text X starts with, up to its first placeholder
LeadText(X) ==
    LET at == FirstIndexFrom(X, <<"{","{">>, 1)
    IN  IF at = 0 THEN X ELSE SubSeq(X, 1, at - 1)

\* the required fields of k that are not present in d, in registry order
AbsentRequired(k, d) ==
    SelectSeq(TEMPLATES[k].requiredFields, LAMBDA f : ~Present(d, f))

\* d passes the validation of template k
PassesValidation(k, d) == validateTemplateData(k, d).valid

\* the text renderTemplate holds after its conditional-block step
AfterBlocks(k, d) == ProcessConditionalBlocks(TEMPLATES[k].textTemplate, d)

Rendered == op = "renderTemplate" /\ Registered(templateKey)

(***************************************************************************)
(* Claims                                                                  *)
(***************************************************************************)

\* C1 -- Required-field gate: for a registered key, renderTemplate raises the
\* missing-required-fields error if and only if some required field is
\* absent from the data record or is the empty string.
C1_RequiredFieldGate ==
    Rendered =>
        (RaisedMissingRequiredFields(result)
           <=> \E f \in RequiredFields(templateKey) : ~Present(data, f))

\* C2 -- A required field holding a number (0 included) or a boolean (false
\* included) counts as present: validation does not list it as missing, and
\* renderTemplate does not raise the missing-required-fields error when
\* every required field is present in that sense.
C2_ZeroAndFalseArePresent ==
    Registered(templateKey) =>
        /\ op = "validateTemplateData" =>
             \A f \in RequiredFields(templateKey) :
                Get(data, f).type \in {"number", "boolean"}
                   => f \notin SeqToSet(result.missingFields)
        /\ (/\ op = "renderTemplate"
            /\ \A f \in RequiredFields(templateKey) : Present(data, f))
             => ~RaisedMissingRequiredFields(result)

\* C3 -- Unknown key: for a key that is not registered, renderTemplate raises
\* template-not-found, validation reports template-not-found, and
\* getTemplateInfo returns null; no other error and no template is produced.
C3_UnknownKey ==
    ~Registered(templateKey) =>
        /\ op = "renderTemplate" => RaisedTemplateNotFound(result)
        /\ op = "validateTemplateData" =>
             /\ result.kind = "return"
             /\ ~result.valid
             /\ result.message = "Template not found"
        /\ op = "getTemplateInfo" =>
             result.kind = "return" /\ result.info = <<>>

\* C4 -- Conditional-block suppression: in the output of renderTemplate, a
\* block {{#f}}X{{/f}} whose field f is not present leaves neither X nor its
\* markers; a block whose field is present leaves X, without the markers and
\* with the placeholders of X substituted.
C4_ConditionalBlockSuppression ==
    (Rendered /\ result.kind = "return") =>
        \A f \in BlockFields(templateKey) :
            LET X == BlockText(templateKey, f)
            IN  /\ ~Contains(result.text, Open(f))
                /\ ~Contains(result.text, Close(f))
                /\ IF Present(data, f)
                   THEN Contains(result.text,
                                 trim(LiteralSubstitute(X, data, 1)))
                   ELSE ~Contains(result.text, trim(LeadText(X)))

\* C5 -- Untouched unknown placeholders: when the data record passes
\* validation, a placeholder {{g}} that the block step leaves in the text,
\* whose name g is not a property of the data record and not a required
\* field, is still {{g}} in the output; it is not stripped and not an error.
C5_UnknownPlaceholdersStay ==
    (Rendered /\ PassesValidation(templateKey, data)) =>
        \A g \in OptionalFields(templateKey) :
            (/\ ~HasKey(data, g)
             /\ Contains(AfterBlocks(templateKey, data), Ph(g)))
               => /\ result.kind = "return"
                  /\ Contains(result.text, Ph(g))

\* C6 -- Placeholder substitution: when the data record passes validation,
\* the output is the whitespace-normalized text in which every {{key}} left
\* by the block step, for every property key of the data record, is replaced
\* by exactly String(value) (by nothing for null and undefined).
C6_PlaceholderSubstitution ==
    (Rendered /\ PassesValidation(templateKey, data)) =>
        /\ result.kind = "return"
        /\ result.text =
             CleanWhitespace(
                 LiteralSubstitute(AfterBlocks(templateKey, data), data, 1))

\* C7 -- Order of operations: a field f that is both the condition of a block
\* and a placeholder inside it gives, in the output, the block's text with
\* f's own value when f is present, and nothing of the block when f is not.
C7_BlocksBeforePlaceholders ==
    (Rendered /\ result.kind = "return") =>
        \A f \in BlockFields(templateKey) :
            LET X == BlockText(templateKey, f)
            IN  Contains(X, Ph(f)) =>
                  IF Present(data, f)
                  THEN Contains(result.text,
                                trim(LeadText(X) \o StringOf(Get(data, f))))
                  ELSE /\ ~Contains(result.text, trim(LeadText(X)))
                       /\ ~Contains(result.text, Ph(f))

\* C8 -- Validation result: for a registered key, validation returns as
\* missingFields exactly the required fields that are absent or empty in the
\* data record, valid is true exactly when there are none, validation does
\* not raise, and the missing-required-fields error of renderTemplate
\* carries the same list.
C8_ValidationResult ==
    Registered(templateKey) =>
        /\ op = "validateTemplateData" =>
             /\ result.kind = "return"
             /\ result.missingFields = AbsentRequired(templateKey, data)
             /\ result.valid <=> (AbsentRequired(templateKey, data) = <<>>)
        /\ (op = "renderTemplate" /\ RaisedMissingRequiredFields(result)) =>
             result.missingFields = AbsentRequired(templateKey, data)

\* C9 -- Error closure: every renderTemplate call returns a string or raises
\* template-not-found or missing-required-fields; no other error escapes.
C9_ErrorClosure ==
    op = "renderTemplate" =>
        \/ result.kind = "return"
        \/ RaisedTemplateNotFound(result)
        \/ RaisedMissingRequiredFields(result)

\* C10 -- Optional fields: with every required field present and the data
\* record holding only fields of the template, renderTemplate does not
\* raise, and an optional field that is absent leaves neither its
\* placeholder nor its block markers in the output.
C10_OptionalFieldsMayBeAbsent ==
    (/\ Rendered
     /\ \A f \in RequiredFields(templateKey) : Present(data, f)
     /\ \A n \in 1..Len(data) :
           data[n].key \in RequiredFields(templateKey) \cup OptionalFields(templateKey))
      => /\ result.kind = "return"
         /\ \A f \in OptionalFields(templateKey) :
               ~HasKey(data, f) =>
                  /\ ~Contains(result.text, Ph(f))
                  /\ ~Contains(result.text, Open(f))
                  /\ ~Contains(result.text, Close(f))

\* the markers and single characters a text is made of, from index i on
RECURSIVE TokensFrom(_, _)
TokensFrom(s, i) ==
    IF i > Len(s) THEN <<>>
    ELSE LET markers == {t \in BlockTokens : Len(t) > 1 /\ MatchLit(s, i, t)}
         IN  IF markers = {} THEN <<(<<s[i]>>)>> \o TokensFrom(s, i + 1)
             ELSE LET t == CHOOSE t \in markers : TRUE
                  IN  <<t>> \o TokensFrom(s, i + Len(t))

IsOpener(t) == \E n \in BlockNames : t = Open(n)

IsCloser(t) == \E n \in BlockNames : t = Close(n)

MarkerName(t) == CHOOSE n \in BlockNames : t \in {Open(n), Close(n)}

\* token i is an opening marker with no later closing marker of its name, or
\* a closing marker with no earlier opening marker of its name
Unmatched(toks, i) ==
    \/ /\ IsOpener(toks[i])
       /\ \A j \in (i + 1)..Len(toks) : toks[j] /= Close(MarkerName(toks[i]))
    \/ /\ IsCloser(toks[i])
       /\ \A j \in 1..(i - 1) : toks[j] /= Open(MarkerName(toks[i]))

\* the engine keeps the body of a block on field n
KeepsBlock(d, n) == BlockReplacer(d, n, <<"x">>) = <<"x">>

\* Same-name pairing read off the tokens, left to right: an opening marker
\* pairs with the first later closing marker of its name and the pair, with
\* all between, gives way to the text between or to nothing; every other
\* token stays as it is.
RECURSIVE PairedOutput(_, _, _)
PairedOutput(toks, i, d) ==
    IF i > Len(toks) THEN <<>>
    ELSE LET closers == IF IsOpener(toks[i])
                        THEN {j \in (i + 1)..Len(toks) :
                                 toks[j] = Close(MarkerName(toks[i]))}
                        ELSE {}
         IN  IF closers = {} THEN toks[i] \o PairedOutput(toks, i + 1, d)
             ELSE (IF KeepsBlock(d, MarkerName(toks[i]))
                   THEN Flatten(SubSeq(toks, i + 1, Least(closers) - 1))
                   ELSE <<>>)
                    \o PairedOutput(toks, Least(closers) + 1, d)

\* C11 -- Same-name pairing: an opening marker with no same-name closer, a
\* closing marker with no same-name opener and an opener followed only by a
\* differently-named closer are all left in the output of the block step as
\* literal conditional syntax.
C11_UnmatchedMarkersStay ==
    op = "conditionalBlocks" =>
        LET toks == TokensFrom(inputText, 1)
        IN  \A i \in 1..Len(toks) :
                Unmatched(toks, i) => Contains(result.text, toks[i])

\* C11 (amended) -- Same-name pairing: reading left to right, {{#a}} pairs
\* only with the first later {{/a}} of the identical name; every marker
\* outside such a pair (an opener with no same-name closer, a closer with no
\* same-name opener, an opener followed only by a differently-named closer)
\* is left in the output as literal conditional syntax, and a marker between
\* the two markers of a pair stays or goes with the text of that pair.
C11_SameNamePairing ==
    op = "conditionalBlocks" =>
        result.text = PairedOutput(TokensFrom(inputText, 1), 1, data)

\* an opener without closer and a closer without opener stay in the output
\* next to a pair that was resolved
C11_Witness ==
    /\ op = "conditionalBlocks"
    /\ result.text /= inputText
    /\ LET toks == TokensFrom(inputText, 1)
       IN  /\ \E i \in 1..Len(toks) :
                 /\ IsOpener(toks[i]) /\ Unmatched(toks, i)
                 /\ Contains(result.text, toks[i])
           /\ \E i \in 1..Len(toks) :
                 /\ IsCloser(toks[i]) /\ Unmatched(toks, i)
                 /\ Contains(result.text, toks[i])

\* C12 -- Idempotent whitespace normalization: the whitespace clean-up
\* applied to its own output returns that output unchanged, for every text.
C12_IdempotentNormalization ==
    op = "cleanWhitespaceAgain" => result.text = inputText

\* a text with lines, blank lines and runs of whitespace was cleaned, and the
\* clean-up ran again on what came out
C12_Witness ==
    /\ op = "cleanWhitespaceAgain"
    /\ Len(inputText) > 1
    /\ Contains(inputText, <<" ">>)
    /\ result.text = inputText

\* C14 -- No side effects: whatever engine call is made (getTemplateInfo,
\* getAllTemplateKeys, getAllTemplates, validation, renderTemplate), the
\* registry holds the content it had at process start and the data record
\* passed in is unchanged.
C14_NoSideEffects == [][registry' = TEMPLATES /\ data' = data]_vars

\* a non-empty record with a value that is not a string was rendered and the
\* registry is what it was
C14_Witness ==
    /\ op = "renderTemplate"
    /\ result.kind = "return"
    /\ \E n \in 1..Len(data) : data[n].value.type /= "string"
    /\ registry = TEMPLATES

\* C15 -- Concurrent use: with any interleaving of the steps of the callers'
\* renderTemplate calls, each call returns (or raises) exactly what it
\* returns when run alone on its template key and data record.
C15_ConcurrentCallsAsIfAlone ==
    \A c \in DOMAIN callers :
        callers[c].pc = "done" =>
            callers[c].result = renderTemplate(callers[c].templateKey, callers[c].data)

\* two calls on different templates overlapped and both returned their text
C15_Witness ==
    /\ callers[1].pc = "done" /\ callers[2].pc = "done"
    /\ callers[1].overlapped /\ callers[2].overlapped
    /\ callers[1].result.kind = "return" /\ callers[2].result.kind = "return"
    /\ callers[1].result.text /= callers[2].result.text

\* C16 -- Every forwarding webhook handler (orders/updated, checkouts/create,
\* app/uninstalled, customers/redact) responds 401 to Shopify when
\* authenticate.webhook rejects the request.
C16_Responds401OnHmacFailure ==
    (hook /= <<>> /\ ~hook.request.hmacValid) => hook.status = 401

\* C17 -- Once authenticate.webhook has accepted a request, a forwarding
\* webhook handler responds 200 whatever happens to the forward: a non-2xx
\* answer of the Wylto backend or a fetch that throws never changes it.
C17_Responds200AfterAuthentication ==
    (hook /= <<>> /\ hook.request.hmacValid) => hook.status = 200

\* the shop's Store row exists, holds a non-empty API key and a non-empty
\* account id, and is switched on
Configured(table, shop) ==
    /\ shop \in DOMAIN table
    /\ table[shop].wyltoApiKey.type = "string" /\ table[shop].wyltoApiKey.str /= <<>>
    /\ table[shop].wyltoAccountId.type = "string"
    /\ table[shop].wyltoAccountId.str /= <<>>
    /\ table[shop].isActive = TRUE

\* shopDomain, templateKey and recipient are all non-empty
ParamsPass(p) == p.shopDomain /= <<>> /\ p.templateKey /= "" /\ p.recipient /= <<>>

\* this step is a sendWhatsAppMessage call
CallStep == sendCall'.seq /= sendCall.seq

\* the row this step appended to MessageLog
NewRow == messageLog'[Len(messageLog')]

\* this step appended exactly one row to MessageLog and touched no other
OneRowWritten ==
    /\ Len(messageLog') = Len(messageLog) + 1
    /\ SubSeq(messageLog', 1, Len(messageLog)) = messageLog

C19_OneLogRowPerCall ==
    [][(CallStep /\ ParamsPass(sendCall'.params)) =>
          /\ sendCall'.kind = "return"
          /\ OneRowWritten
          /\ NewRow.shopDomain = sendCall'.params.shopDomain
          /\ NewRow.recipient = sendCall'.params.recipient
          /\ NewRow.messageType = sendCall'.params.templateKey
          /\ NewRow.status \in {"sent", "failed"}
          /\ NewRow.status = "sent"
               <=> (wyltoRequests' /= wyltoRequests /\ sendCall'.answer = "ok")
          /\ NewRow.sentAt /= "null" <=> NewRow.status = "sent"]_vars

\* a handler's call reached the Wylto API, which refused the message: one
\* row, "failed", without sentAt
C19_Witness ==
    /\ sendCall.seq > 0
    /\ sendCall.caller = "ordersCreate"
    /\ sendCall.answer = "http_error"
    /\ Len(messageLog) = sendCall.seq
    /\ messageLog[Len(messageLog)].status = "failed"
    /\ messageLog[Len(messageLog)].sentAt = "null"
    /\ wyltoRequests /= <<>>

\* C20 -- getWyltoConfigForShop returns exactly when the shop's Store row
\* exists, has a non-empty wyltoApiKey and wyltoAccountId and isActive =
\* true, and then returns the stored credentials; it throws otherwise.  A
\* sendWhatsAppMessage call sends a request to the Wylto API only if the
\* shop is so configured when the call loads the configuration, and the
\* request carries the stored credentials.
C20_NoRequestUnlessConfigured ==
    /\ [](\A shop \in DOMAIN stores \cup {shopA, <<>>} :
            LET loaded == getWyltoConfigForShop(stores, shop)
            IN  /\ loaded.kind = "return" <=> Configured(stores, shop)
                /\ loaded.kind /= "return" => loaded.kind = "throw"
                /\ loaded.kind = "return" =>
                     /\ loaded.config[1].apiKey = stores[shop].wyltoApiKey
                     /\ loaded.config[1].accountId = stores[shop].wyltoAccountId)
    /\ [][wyltoRequests' /= wyltoRequests =>
            /\ CallStep
            /\ Configured(stores, sendCall'.params.shopDomain)
            /\ Len(wyltoRequests') = Len(wyltoRequests) + 1
            /\ wyltoRequests'[Len(wyltoRequests')].apiKey
                 = stores[sendCall'.params.shopDomain].wyltoApiKey.str
            /\ wyltoRequests'[Len(wyltoRequests')].accountId
                 = stores[sendCall'.params.shopDomain].wyltoAccountId.str]_vars

\* a request was sent for the shop while it was configured, and the shop has
\* been switched off since
C20_Witness ==
    /\ wyltoRequests /= <<>>
    /\ sendCall.success
    /\ shopA \in DOMAIN stores
    /\ ~stores[shopA].isActive

\* this step is an updateStoreConfig call for the shop: the row it leaves is
\* as the call's config says, its fields in `kept` that were not passed are
\* as they were, and a new row has isActive false and null credentials
\* where the config gives nothing
UpdateStoreConfigWrites(kept) ==
    (hook'.op = "updateStoreConfig" /\ stores' /= stores) =>
        LET config == hook'.config
            passed == {f \in {"wyltoApiKey", "wyltoAccountId", "isActive"} :
                          config[f].type /= "undefined"}
            new    == stores'[shopA]
        IN  /\ DOMAIN stores' = DOMAIN stores \cup {shopA}
            /\ \A f \in passed \ {"isActive"} : new[f] = config[f]
            /\ "isActive" \in passed => new.isActive = config.isActive.bool
            /\ IF shopA \in DOMAIN stores
               THEN \A f \in kept \ passed : new[f] = stores[shopA][f]
               ELSE /\ "isActive" \notin passed => new.isActive = FALSE
                    /\ \A f \in {"wyltoApiKey", "wyltoAccountId"} \ passed :
                          new[f] = JSNull

ConnectStep == hook'.op = "connect" /\ (hook' /= hook \/ stores' /= stores)

\* the places of the calls of helper `name` among the calls of the action
CallsOf(calls, name) == {i \in 1..Len(calls) : calls[i].name = name}

\* C22 -- In the home page's connect action saveAccessToken is called before
\* connectToApp; connectToApp is called even when saveAccessToken reported a
\* failure; the Store is written, with isActive = true, only after
\* connectToApp has returned success; when connectToApp fails the Store is
\* left as it was and the action reports success = false.
C22_ConnectOrder ==
    [][ConnectStep =>
          LET calls == hook'.calls
              saves == CallsOf(calls, "saveAccessToken")
              links == CallsOf(calls, "connectToApp")
              writes == CallsOf(calls, "updateStoreConfig")
          IN  /\ \A j \in links : \E i \in saves : i < j
              /\ \A i \in saves :
                    (calls[i].ended.kind = "resolve" /\ ~calls[i].ended.success)
                        => i + 1 \in links
              /\ stores' /= stores =>
                    /\ stores'[shopA].isActive
                    /\ \E j \in links : calls[j].ended.success /\ \A w \in writes : j < w
                    /\ writes /= {}
              /\ (\E j \in links : ~calls[j].ended.success) =>
                    /\ stores' = stores
                    /\ hook'.success = FALSE]_vars

\* saveAccessToken reported a failure, connectToApp was called all the same
\* and succeeded, and the Store is switched on
C22_Witness ==
    /\ hook.op = "connect" /\ hook.success
    /\ Len(hook.calls) = 3
    /\ hook.calls[1].name = "saveAccessToken" /\ ~hook.calls[1].ended.success
    /\ hook.calls[2].name = "connectToApp" /\ hook.calls[2].ended.success
    /\ stores[shopA].isActive

\* the helper called got as far as asking the backend
AskedBackend ==
    /\ ~hook.env.testMode /\ hook.env.apiToken
    /\ Truthy(hook.shop)
    /\ hook.op = "checkConnectionStatus" \/ Truthy(hook.token)

\* C23 -- saveAccessToken, connectToApp and checkConnectionStatus never
\* reject: in every environment, for every argument and every answer of the
\* backend they resolve to a result object, with success (connected) false
\* on every failure; checkConnectionStatus reports connected = true only
\* when the backend answered successfully with connected = true, and a 404
\* gives connected = false with no error.
C23_HelpersNeverReject ==
    hook.op \in {"saveAccessToken", "connectToApp", "checkConnectionStatus"} =>
        /\ hook.ended.kind = "resolve"
        /\ IF hook.op = "checkConnectionStatus"
           THEN /\ hook.ended.connected => (AskedBackend /\ hook.remote = "ok_full")
                /\ (AskedBackend /\ hook.remote \in {"s404", "s404_unknown"})
                     => (~hook.ended.connected /\ hook.ended.error = "none")
           ELSE (AskedBackend /\ hook.remote \notin {"ok_full", "ok_empty"})
                     => ~hook.ended.success

C25_KeyOrderIndependence ==
    Rendered => renderTemplate(templateKey, Reverse(data)) = result

\* the name written at index i of s (a run of word characters), and whether
\* "}}" follows it
NameAt(s, i) == SubSeq(s, i, i + WordRunLen(s, i) - 1)

ClosedAt(s, i) == MatchLit(s, i + WordRunLen(s, i), <<"}","}">>)

\* the places of s where {{name}}, {{#name}} and {{/name}} start
PlaceholdersIn(s) ==
    {i \in 1..Len(s) : /\ MatchLit(s, i, <<"{","{">>)
                       /\ WordRunLen(s, i + 2) > 0 /\ ClosedAt(s, i + 2)}

OpenersIn(s) ==
    {i \in 1..Len(s) : /\ MatchLit(s, i, <<"{","{","#">>)
                       /\ WordRunLen(s, i + 3) > 0 /\ ClosedAt(s, i + 3)}

ClosersIn(s) ==
    {i \in 1..Len(s) : /\ MatchLit(s, i, <<"{","{","/">>)
                       /\ WordRunLen(s, i + 3) > 0 /\ ClosedAt(s, i + 3)}

\* the template t is well formed
WellFormed(t) ==
    LET body == t.textTemplate
        req  == SeqToSet(t.requiredFields)
        opt  == SeqToSet(t.optionalFields)
    IN  /\ req \cap opt = {}
        /\ \A i \in PlaceholdersIn(body) : NameAt(body, i + 2) \in req \cup opt
        /\ \A i \in OpenersIn(body) :
              /\ NameAt(body, i + 3) \in opt
              /\ \E j \in ClosersIn(body) :
                    /\ j > i
                    /\ NameAt(body, j + 3) = NameAt(body, i + 3)
                    /\ \A x \in OpenersIn(body) \cup ClosersIn(body) :
                          ~(i < x /\ x < j)
        /\ \A j \in ClosersIn(body) :
              \E i \in OpenersIn(body) :
                 i < j /\ NameAt(body, i + 3) = NameAt(body, j + 3)

RegistryWellFormed ==
    /\ DOMAIN registry = SeqToSet(getAllTemplateKeys)
    /\ \A k \in DOMAIN registry : WellFormed(registry[k])

\* C27 -- Registry well-formedness: for each of the five registered
\* templates requiredFields and optionalFields are disjoint, every {{name}}
\* of the body is a required or an optional field, every conditional block
\* is closed by a marker of its own name, is not nested and is named after an
\* optional field; and getTemplateInfo(k) is non-null exactly for the keys
\* that getAllTemplateKeys() returns.
C27_RegistryWellFormed ==
    /\ RegistryWellFormed
    /\ op = "getTemplateInfo" =>
          ((result.info /= <<>>) <=> Registered(templateKey))

\* C26 -- After any sequence of getOrCreateStore, settings-page save,
\* home-page save and home-page connect, a Store row with isActive = true
\* holds a non-empty wyltoApiKey and a non-empty wyltoAccountId.
C26_ActiveStoreHasCredentials ==
    \A shop \in DOMAIN stores :
        stores[shop].isActive = TRUE => Configured(stores, shop)

\* the rows of the table that the last delivery created
RowsOfDelivery == hook.first..Len(webhookLog)

\* C28 -- Logging webhook handlers, across any sequence of deliveries
\* (Shopify redelivering an identical payload after a 500 included): a
\* WebhookLog row written with status 'failed' is never modified afterwards,
\* and marking a delivery 'completed' changes only the row created for that
\* delivery.
C28_EarlierRowsUntouched ==
    [][\A i \in 1..Len(webhookLog) :
          /\ webhookLog[i].status = "failed" => webhookLog'[i] = webhookLog[i]
          /\ webhookLog'[i].status = "completed"
                => webhookLog[i].status = "completed"]_vars

\* C29 -- Logging webhook handlers: a delivery the handler finishes leaves no
\* WebhookLog row of that delivery in status 'processing'; the row created as
\* 'processing' ends as 'completed' when the handler answers 200 and as
\* 'failed' when it answers 500.
C29_NoRowLeftProcessing ==
    (hook.op = "deliver" /\ hook.status \in {"200", "500"}) =>
        \A i \in RowsOfDelivery :
            /\ webhookLog[i].status /= "processing"
            /\ hook.status = "200" => webhookLog[i].status = "completed"
            /\ hook.status = "500" => webhookLog[i].status = "failed"

\* C30 -- Under every interleaving of concurrent getOrCreateStore calls for
\* the same shopDomain, each call returns a Store record for that shop, and
\* at most one Store record exists for the shopDomain afterwards.
C30_EveryCallReturnsTheStore ==
    \A c \in 1..Len(callers) :
        callers[c].pc = "done" =>
            /\ callers[c].kind = "resolve"
            /\ Len(callers[c].store) = 1
            /\ callers[c].store[1].shopDomain = callers[c].shopDomain
            /\ Cardinality({s \in DOMAIN stores :
                              stores[s].shopDomain = callers[c].shopDomain}) <= 1

====
